---- MODULE Spec2Model ----
(***************************************************************************)
(* Model of the godi resolver: the sorted copy-on-write provider list, the *)
(* component store, the lock manager, the tracker and the resolution       *)
(* pipeline (query, validator, collector, provideUsing) run by concurrent  *)
(* tasks.                                                                  *)
(***************************************************************************)
EXTENDS Integers, Sequences, FiniteSets, TLC

VARIABLES scen, providers, pending, store, locks, holder, stack, hist, calls, invoked,
          registered, decorators, regs

\* A SortedCOWSlice on its own, with the tasks that add to it and read it.
VARIABLES comparator, items, heap, data, mu, adders, snapshot, added

resolverVars == <<scen, providers, pending, store, locks, holder, stack, hist, calls, invoked,
                  registered, decorators, regs>>

sliceVars == <<comparator, items, heap, data, mu, adders, snapshot, added>>

\* Trackers on their own: the backing arrays of their stacks, the trackers
\* created so far and the number of operations applied to them.
VARIABLES arrays, trackers, ops

trackerVars == <<arrays, trackers, ops>>

vars == <<resolverVars, sliceVars, trackerVars>>

(***************************************************************************)
(* Bounds of the exploration.                                              *)
(***************************************************************************)
MaxTasks == 2
MaxCalls == 4
MaxCallsShort == 2
MaxNesting == 2
MaxItems == 3
MaxTrackers == 2
MaxOps == 6

Tasks == 1..MaxTasks

(***************************************************************************)
(* Types and names.                                                        *)
(***************************************************************************)
StringType == "string"
ResolverType == "*Resolver"
ServiceType == "*TestService"
RepoType == "*TestRepository"
CloseableType == "io.Closer"
ControllerType == "*TestController"
InitializerType == "Initializer"
UnsafeInitializerType == "UnsafeInitializer"

Interfaces == {CloseableType}

Implements == {<<ServiceType, CloseableType>>, <<RepoType, CloseableType>>,
               <<ResolverType, CloseableType>>}

Name(s, t) == [name |-> s, typ |-> t]

matchType(queryType, providedType) ==
    \/ queryType = providedType
    \/ queryType \in Interfaces /\ <<providedType, queryType>> \in Implements

(***************************************************************************)
(* Requests: a query, a validator and a collector.                         *)
(***************************************************************************)
Request(q, s, t, v, c) == [q |-> q, name |-> s, typ |-> t, v |-> v, c |-> c]

Resolve(t) == Request("type", "", t, "mandatory", "unique")
ResolveNamed(s, t) == Request("name", s, t, "mandatory", "unique")
ResolveAll(t) == Request("type", "", t, "multiple", "slice")
TryResolve(t) == Request("type", "", t, "optional", "unique")
TryResolveNamed(s, t) == Request("name", s, t, "optional", "unique")

InjectAuto(t) == Request("type", "", t, "mandatory", "unique")
InjectNamed(s, t) == Request("name", s, t, "mandatory", "unique")
InjectMultipleAsMap(t) == Request("type", "", t, "multiple", "map")

NoReq == Request("none", "", "", "", "")

(***************************************************************************)
(* Providers.  flaky marks a factory whose body may return an error.       *)
(***************************************************************************)
Provider(id, s, t, prio, deps, flaky) ==
    [id |-> id, name |-> Name(s, t), prio |-> prio, deps |-> deps, flaky |-> flaky,
     static |-> FALSE]

\* ToStaticProvider(value): a factory that returns the same value every
\* time it is called.
ToStaticProvider(p) == [p EXCEPT !.static = TRUE]

ResolverProvider ==
    ToStaticProvider(Provider(0, "godi.resolver", ResolverType, 0, <<>>, FALSE))

NoProvider == Provider(-1, "", "", 0, <<>>, FALSE)

\* A decorator for the name (s, t), t being the type of its first parameter.
Decorator(id, s, t, prio, deps, flaky) ==
    [id |-> id, name |-> Name(s, t), prio |-> prio, deps |-> deps, flaky |-> flaky]

ForName(dec) == dec.name

CanProvide(p, n) == n.name = p.name.name /\ matchType(n.typ, p.name.typ)

ListProvidableNames(p) == <<p.name>>

(***************************************************************************)
(* Conditions of a registration: When(name).Equals(value) and              *)
(* When(name).NotEquals(value), and a provider or decorator registered     *)
(* with conditions.                                                        *)
(***************************************************************************)
Condition(s, op, value) == [name |-> s, op |-> op, value |-> value]

equals(a, b) == a = b

notEquals(a, b) == a # b

operator(cond, a) ==
    IF cond.op = "equals" THEN equals(a, cond.value) ELSE notEquals(a, cond.value)

Conditional(kind, item, conds) == [kind |-> kind, item |-> item, conds |-> conds]

\* The request validateCondition resolves: the string of that name, if any.
ConditionRequest(cond) == TryResolveNamed(cond.name, StringType)

RegisterReq == Request("register", "", "", "", "")
CloseReq == Request("close", "", "", "", "")
InitializeReq == Request("initialize", "", "", "", "")

NoConditional == Conditional("none", NoProvider, <<>>)

(***************************************************************************)
(* fn.Comparator results and the two orders used by the resolver.          *)
(***************************************************************************)
Less == -1
Equal == 0
Greater == 1

compareByPriority(p1, p2) ==
    IF p1.prio < p2.prio THEN Less
    ELSE IF p1.prio > p2.prio THEN Greater
    ELSE Equal

ReverseComparator(p1, p2) == compareByPriority(p2, p1)

\* The comparator a list was built with: reversed for providers (highest
\* priority first), natural for decorators (lowest priority first).
Comparator(reversed, p1, p2) ==
    IF reversed THEN ReverseComparator(p1, p2) ELSE compareByPriority(p1, p2)

(***************************************************************************)
(* SortedCOWSlice.Add: sort.Search (binary search over 0-based indexes     *)
(* [i, j)) for the first element that is not Less than the item, then a    *)
(* copy with the item inserted there.                                      *)
(***************************************************************************)
\* A search for the first element that is Greater than the item (an upper
\* bound instead of the lower bound sort.Search is given).
RECURSIVE sortSearchUpper(_, _, _, _, _)
sortSearchUpper(reversed, current, item, i, j) ==
    IF i >= j THEN i
    ELSE LET h == (i + j) \div 2
         IN IF Comparator(reversed, current[h + 1], item) # Greater
            THEN sortSearchUpper(reversed, current, item, h + 1, j)
            ELSE sortSearchUpper(reversed, current, item, i, h)

RECURSIVE sortSearch(_, _, _, _, _)
sortSearch(reversed, current, item, i, j) ==
    IF i >= j THEN i
    ELSE LET h == (i + j) \div 2
         IN IF Comparator(reversed, current[h + 1], item) = Less
            THEN sortSearch(reversed, current, item, h + 1, j)
            ELSE sortSearch(reversed, current, item, i, h)

\* An Add that appends instead of inserting at the sorted position.
AddAtEnd(reversed, current, item) == Append(current, item)

Add(reversed, current, item) ==
    LET pos == sortSearch(reversed, current, item, 0, Len(current))
    IN SubSeq(current, 1, pos) \o <<item>> \o SubSeq(current, pos + 1, Len(current))

(***************************************************************************)
(* SortedCOWSlice on its own.  heap holds the backing arrays ever made,    *)
(* data is the atomic pointer (the slice it points to: an array and a      *)
(* length), mu the writers' mutex (0 when free).  Each task adds items of  *)
(* the scenario, one Add at a time; a reader calls All() whenever it likes *)
(* and keeps the slice it got.  added lists the calls of Add that have      *)
(* returned: the item and the task.                                        *)
(***************************************************************************)
ItemPriorities == {0, 10}

Item(i) == [id |-> i, prio |-> items[i]]

Slice(arr, len) == [arr |-> arr, len |-> len]

\* The elements seen through a slice.
Elements(h, s) == SubSeq(h[s.arr], 1, s.len)

Idle == [pc |-> "idle", item |-> 0, current |-> Slice(0, 0), pos |-> 0, newSlice |-> Slice(0, 0)]

NoSnapshot == [slice |-> Slice(0, 0), elems |-> <<>>]

\* NewSortedCOWSlice(comparator): the pointer is set to an empty slice.
NewSortedCOWSlice ==
    /\ heap = <<<<>>>>
    /\ data = Slice(1, 0)
    /\ mu = 0
    /\ adders = [t \in Tasks |-> Idle]
    /\ snapshot = NoSnapshot
    /\ added = <<>>

\* The slice of a resolver is not looked at on its own.
NoItems ==
    /\ comparator = "ReverseComparator"
    /\ items = <<>>
    /\ NewSortedCOWSlice

\* No tracker machine: the resolver's trackers live in the frames.
NoTrackers ==
    /\ arrays = <<>>
    /\ trackers = <<>>
    /\ ops = 0

\* The items whose Add has not been called yet.
ToAdd ==
    {i \in DOMAIN items :
        /\ \A k \in 1..Len(added) : added[k].item # i
        /\ \A t \in Tasks : adders[t].item # i}

\* A mutex that lets every caller in.
LockNeverBlocks(m) == TRUE

\* mu.Lock() returns when the mutex is free.
MutexFree(m) == m = 0

\* Add(item) is called and r.mu.Lock() returns.
AddLock(t, i) ==
    /\ adders[t].pc = "idle"
    /\ i \in ToAdd
    /\ MutexFree(mu)
    /\ mu' = t
    /\ adders' = [adders EXCEPT ![t] = [Idle EXCEPT !.pc = "load", !.item = i]]
    /\ UNCHANGED <<resolverVars, trackerVars, comparator, items, heap, data, snapshot, added>>

\* current := *r.data.Load() and pos := sort.Search(len(current), ...).
AddSearch(t) ==
    /\ adders[t].pc = "load"
    /\ adders' = [adders EXCEPT ![t].pc = "make", ![t].current = data,
                                ![t].pos = sortSearch(comparator = "ReverseComparator",
                                                      Elements(heap, data),
                                                      Item(adders[t].item), 0, data.len)]
    /\ UNCHANGED <<resolverVars, trackerVars, comparator, items, heap, data, mu, snapshot, added>>

\* A slice of the new length over the array of the current one.
sliceInPlace(h, current, n) == Slice(current.arr, n)

\* make([]T, n): a slice over a new array.
make(h, current, n) == Slice(Len(h) + 1, n)

\* The array of slice s with its elements set to elems, the rest of the
\* array (and of the heap) as it was.
WriteElements(h, s, elems) ==
    [a \in 1..(IF s.arr > Len(h) THEN s.arr ELSE Len(h)) |->
        IF a # s.arr THEN h[a]
        ELSE elems \o (IF a <= Len(h) /\ Len(h[a]) > s.len
                       THEN SubSeq(h[a], s.len + 1, Len(h[a])) ELSE <<>>)]

\* newSlice := make(...), the two copies and newSlice[pos] = item.
AddCopy(t) ==
    /\ adders[t].pc = "make"
    /\ LET ad == adders[t]
           current == Elements(heap, ad.current)
           newSlice == make(heap, ad.current, ad.current.len + 1)
           elems == SubSeq(current, 1, ad.pos) \o <<Item(ad.item)>> \o
                    SubSeq(current, ad.pos + 1, Len(current))
       IN /\ heap' = WriteElements(heap, newSlice, elems)
          /\ adders' = [adders EXCEPT ![t].pc = "store", ![t].newSlice = newSlice]
    /\ UNCHANGED <<resolverVars, trackerVars, comparator, items, data, mu, snapshot, added>>

\* r.data.Store(&newSlice)
AddStore(t) ==
    /\ adders[t].pc = "store"
    /\ data' = adders[t].newSlice
    /\ adders' = [adders EXCEPT ![t].pc = "unlock"]
    /\ UNCHANGED <<resolverVars, trackerVars, comparator, items, heap, mu, snapshot, added>>

\* The deferred r.mu.Unlock(); Add returns.
AddUnlock(t) ==
    /\ adders[t].pc = "unlock"
    /\ mu' = 0
    /\ added' = Append(added, [item |-> adders[t].item, by |-> t])
    /\ adders' = [adders EXCEPT ![t] = Idle]
    /\ UNCHANGED <<resolverVars, trackerVars, comparator, items, heap, data, snapshot>>

\* All(): *r.data.Load().  The reader keeps the slice, and what it saw in it.
All ==
    /\ snapshot' = [slice |-> data, elems |-> Elements(heap, data)]
    /\ UNCHANGED <<resolverVars, trackerVars, comparator, items, heap, data, mu, adders, added>>

(***************************************************************************)
(* Component values: the reference built by the k-th call of the factory   *)
(* of provider p, and the decorators applied to it since, in order.  Two   *)
(* calls of a factory give two different references.                       *)
(***************************************************************************)
Value(p, k) == [p |-> p, k |-> k, d |-> <<>>]

\* The component a decorator returns: the one it received, wrapped.
Decorated(comp, dec) == [comp EXCEPT !.d = Append(@, dec.id)]

Zero == Value(-1, 0)

(***************************************************************************)
(* Store.                                                                  *)
(***************************************************************************)
\* A store whose Get never finds anything.
StoreNeverHas(s, n) == FALSE

\* store.Get(name): found.
StoreHas(s, n) == n \in DOMAIN s

Put(s, n, comp) == [m \in DOMAIN s \cup {n} |-> IF m = n THEN comp ELSE s[m]]

(***************************************************************************)
(* Queries.                                                                *)
(***************************************************************************)
QueryResult(n, hasComp, comp, p) ==
    [name |-> n, stored |-> hasComp, comp |-> comp, provider |-> p]

\* queryByType.find: providers in list order, each providable name claimed
\* by the first provider that lists it.
\* A find that keeps one result per provider, without the check that
\* the name is already in the map.
RECURSIVE findByTypeEveryProvider(_, _, _, _, _)
findByTypeEveryProvider(typ, provs, st, i, basket) ==
    IF i > Len(provs) THEN basket
    ELSE LET p == provs[i]
             n == ListProvidableNames(p)[1]
             r == QueryResult(n, StoreHas(st, n),
                              IF StoreHas(st, n) THEN st[n] ELSE Zero, p)
         IN findByTypeEveryProvider(typ, provs, st, i + 1,
                IF matchType(typ, n.typ) THEN basket \cup {r} ELSE basket)

RECURSIVE findByTypeFrom(_, _, _, _, _)
findByTypeFrom(typ, provs, st, i, basket) ==
    IF i > Len(provs) THEN basket
    ELSE LET p == provs[i]
             n == ListProvidableNames(p)[1]
             claimed == \E r \in basket : r.name = n
             r == QueryResult(n, StoreHas(st, n),
                              IF StoreHas(st, n) THEN st[n] ELSE Zero, p)
         IN findByTypeFrom(typ, provs, st, i + 1,
                IF ~claimed /\ matchType(typ, n.typ) THEN basket \cup {r} ELSE basket)

findByType(typ, provs, st) == findByTypeFrom(typ, provs, st, 1, {})

\* A find by name that asks the provider list first, and the store only
\* when no provider can provide the name.
findByNameProvidersFirst(n, provs, st) ==
    LET able == {i \in 1..Len(provs) : CanProvide(provs[i], n)}
    IN IF able # {}
       THEN LET first == CHOOSE i \in able : \A j \in able : i <= j
            IN {QueryResult(n, FALSE, Zero, provs[first])}
       ELSE IF StoreHas(st, n) THEN {QueryResult(n, TRUE, st[n], NoProvider)}
       ELSE {}

\* queryByName.find: the store first, then the first provider able to
\* provide the queried name.
findByName(n, provs, st) ==
    IF StoreHas(st, n)
    THEN {QueryResult(n, TRUE, st[n], NoProvider)}
    ELSE LET able == {i \in 1..Len(provs) : CanProvide(provs[i], n)}
         IN IF able = {} THEN {}
            ELSE LET first == CHOOSE i \in able : \A j \in able : i <= j
                 IN {QueryResult(n, FALSE, Zero, provs[first])}

find(req, provs, st) ==
    IF req.q = "type" THEN findByType(req.typ, provs, st)
    ELSE findByName(Name(req.name, req.typ), provs, st)

\* The results of a query come out of a Go map: any order.
Orderings(S) ==
    {sq \in [1..Cardinality(S) -> S] : \A i, j \in 1..Cardinality(S) : i # j => sq[i] # sq[j]}

(***************************************************************************)
(* Validators.                                                             *)
(***************************************************************************)
\* Validators that only fail on an empty result.
validateNotEmpty(v, n) ==
    IF v = "mandatory" /\ n = 0 THEN "noprovider" ELSE "none"

\* validatorUniqueMandatory, validatorUniqueOptional, validatorMultiple.
validate(v, n) ==
    IF v = "mandatory" THEN (IF n = 0 THEN "noprovider" ELSE IF n > 1 THEN "ambiguous" ELSE "none")
    ELSE IF v = "optional" THEN (IF n > 1 THEN "ambiguous" ELSE "none")
    ELSE "none"

(***************************************************************************)
(* Tracker.                                                                *)
(***************************************************************************)
Tracker(visited, stk) == [visited |-> visited, stack |-> stk]

NewTracker == Tracker({}, <<>>)

NoTracker == Tracker({}, <<>>)

NewTrackerFrom(other) == Tracker(other.visited, other.stack)

PushFails(tracker, n) == n \in tracker.visited

Push(tracker, n) == Tracker(tracker.visited \cup {n}, Append(tracker.stack, n))

\* The chain reported by a failed Push: n, then the stack from its top
\* down to (and including) the first occurrence of n.
RECURSIVE cycleFrom(_, _, _)
cycleFrom(stk, n, i) ==
    IF i < 1 THEN <<>>
    ELSE IF stk[i] = n THEN <<stk[i]>>
    ELSE <<stk[i]>> \o cycleFrom(stk, n, i - 1)

Cycle(tracker, n) == <<n>> \o cycleFrom(tracker.stack, n, Len(tracker.stack))

Pop(tracker) ==
    LET n == tracker.stack[Len(tracker.stack)]
    IN Tracker(tracker.visited \ {n}, SubSeq(tracker.stack, 1, Len(tracker.stack) - 1))

(***************************************************************************)
(* Results of a resolution and frames of a task's call stack.              *)
(***************************************************************************)
Ret(val, vals, found, err, chain) ==
    [val |-> val, vals |-> vals, found |-> found, err |-> err, chain |-> chain]

NoRet == Ret(Zero, <<>>, FALSE, "none", <<>>)

Found(val) == Ret(val, <<>>, TRUE, "none", <<>>)

Failed(err, chain) == Ret(Zero, <<>>, FALSE, err, chain)

NoName == Name("", "")

Frame(kind, pc, req, trk, snap, results, idx, out, prov, name, mutex, comp, ret) ==
    [kind |-> kind, pc |-> pc, req |-> req, trk |-> trk, snap |-> snap, early |-> FALSE,
     since |-> 0, reentered |-> FALSE, dyn |-> NoRet,
     decs |-> <<>>, didx |-> 1, reg |-> NoConditional,
     results |-> results, idx |-> idx, out |-> out, prov |-> prov, name |-> name,
     mutex |-> mutex, comp |-> comp, ret |-> ret]

\* Resolver.resolve(req) about to run its query.
ResolveFrame(req, trk) ==
    Frame("resolve", "find", req, trk, <<>>, <<>>, 1, <<>>, NoProvider, NoName, 0, Zero, NoRet)

\* Resolver.provideUsing(p, name, tracker) about to push the name.
ProvideFrame(p, n) ==
    Frame("provide", "push", NoReq, NoTracker, <<>>, <<>>, 1, <<>>, p, n, 0, Zero, NoRet)

Depth(t) == Len(stack[t])
Top(t) == stack[t][Depth(t)]
Below(t) == stack[t][Depth(t) - 1]

At(t, kind, pc) == Depth(t) > 0 /\ Top(t).kind = kind /\ Top(t).pc = pc

SetTop(t, f) == [stack EXCEPT ![t] = [@ EXCEPT ![Len(@)] = f]]

SetBoth(t, below, top) ==
    [stack EXCEPT ![t] = SubSeq(@, 1, Len(@) - 2) \o <<below, top>>]

Call(t, caller, callee) ==
    [stack EXCEPT ![t] = SubSeq(@, 1, Len(@) - 1) \o <<caller, callee>>]

ReturnTo(t, caller) ==
    [stack EXCEPT ![t] = SubSeq(@, 1, Len(@) - 2) \o <<caller>>]

(***************************************************************************)
(* Scenarios: the providers registered before the tasks start (in that     *)
(* order), the providers and the decorators registered while they run, the *)
(* resolution calls                                                        *)
(* the tasks make, the number of tasks and the number of calls.            *)
(***************************************************************************)
Scenario(pre, late, reqs, tasks, ncalls) ==
    [pre |-> pre, late |-> late, predecs |-> <<>>, decs |-> {}, reqs |-> reqs, tasks |-> tasks,
     calls |-> ncalls, conditional |-> {}, strings |-> <<>>, close |-> FALSE, failing |-> {},
     initialize |-> FALSE, panics |-> FALSE, reenters |-> <<>>]

\* One provider whose factory may fail, resolved by type from every task.
Singleton ==
    Scenario(<<Provider(1, "myService", ServiceType, 0, <<>>, TRUE)>>, {},
             {Resolve(ServiceType), TryResolve(ServiceType)}, MaxTasks, MaxCalls)

\* The same provider asked for by its declared type, and by its name with
\* an interface it implements.
ByInterface ==
    Scenario(<<Provider(1, "myService", ServiceType, 0, <<>>, FALSE)>>, {},
             {Resolve(ServiceType), ResolveNamed("myService", CloseableType),
              TryResolve(ServiceType)}, 1, MaxCalls)

\* Two providers that need each other, injected by type.
Cycle2 ==
    Scenario(<<Provider(1, "circularProviderA", ServiceType, 0, <<InjectAuto(RepoType)>>, FALSE),
               Provider(2, "circularProviderB", RepoType, 0, <<InjectAuto(ServiceType)>>, FALSE)>>,
             {}, {Resolve(ServiceType), Resolve(RepoType)}, MaxTasks, MaxCallsShort)

\* A cycle of three named strings.
Cycle3 ==
    Scenario(<<Provider(1, "A", StringType, 0, <<InjectNamed("B", StringType)>>, FALSE),
               Provider(2, "B", StringType, 0, <<InjectNamed("C", StringType)>>, FALSE),
               Provider(3, "C", StringType, 0, <<InjectNamed("A", StringType)>>, FALSE)>>,
             {}, {ResolveNamed("A", StringType), ResolveNamed("B", StringType),
                  ResolveNamed("C", StringType)}, 1, MaxCallsShort)

\* A depends on B and C, which both depend on D.
Diamond ==
    Scenario(<<Provider(1, "A", StringType, 0,
                        <<InjectNamed("B", StringType), InjectNamed("C", StringType)>>, FALSE),
               Provider(2, "B", StringType, 0, <<InjectNamed("D", StringType)>>, FALSE),
               Provider(3, "C", StringType, 0, <<InjectNamed("D", StringType)>>, FALSE),
               Provider(4, "D", StringType, 0, <<>>, FALSE)>>,
             {}, {ResolveNamed("A", StringType)}, MaxTasks, MaxCallsShort)

\* The same diamond where B takes D as the service and C takes it as a
\* closer, the interface the service implements.
DiamondByInterface ==
    Scenario(<<Provider(1, "A", StringType, 0,
                        <<InjectNamed("B", StringType), InjectNamed("C", StringType)>>, FALSE),
               Provider(2, "B", StringType, 0, <<InjectNamed("D", ServiceType)>>, FALSE),
               Provider(3, "C", StringType, 0, <<InjectNamed("D", CloseableType)>>, FALSE),
               Provider(4, "D", ServiceType, 0, <<>>, FALSE)>>,
             {}, {ResolveNamed("A", StringType)}, 1, MaxCallsShort)

\* Three providers of one name with priorities 0, 100 and 10, registered
\* in any order while a task resolves.
Priorities ==
    Scenario(<<>>, {Provider(1, "lastName", ServiceType, 0, <<>>, FALSE),
                    Provider(2, "lastName", ServiceType, 100, <<>>, FALSE),
                    Provider(3, "lastName", ServiceType, 10, <<>>, FALSE)},
             {Resolve(ServiceType), ResolveNamed("lastName", ServiceType),
              ResolveAll(ServiceType)}, 1, MaxCallsShort)

\* Two providers of one name with the same priority, and a lower one.
EqualPriorities ==
    Scenario(<<>>, {Provider(1, "lastName", ServiceType, 10, <<>>, FALSE),
                    Provider(2, "lastName", ServiceType, 10, <<>>, FALSE),
                    Provider(3, "lastName", ServiceType, 0, <<>>, FALSE)},
             {Resolve(ServiceType), ResolveNamed("lastName", ServiceType)}, 1, MaxCallsShort)

\* Several names of several types behind one interface, some of them
\* claimed by two providers.
Many ==
    Scenario(<<Provider(1, "a", ServiceType, 0, <<>>, FALSE),
               Provider(2, "b", RepoType, 0, <<>>, FALSE),
               Provider(3, "a", RepoType, 0, <<>>, FALSE)>>,
             {Provider(4, "b", RepoType, 5, <<>>, FALSE)},
             {ResolveAll(CloseableType), ResolveAll(RepoType)}, 1, MaxCallsShort)

\* A service with two decorators, the second one needing a string.
WithDecorators ==
    [Scenario(<<Provider(1, "myService", ServiceType, 0, <<>>, FALSE),
                Provider(2, "prefix", StringType, 0, <<>>, FALSE)>>, {},
              {ResolveNamed("myService", ServiceType)}, 1, MaxCallsShort)
     EXCEPT !.decs = {Decorator(1, "myService", ServiceType, 10, <<>>, FALSE),
                      Decorator(2, "myService", ServiceType, 5,
                                <<InjectNamed("prefix", StringType)>>, TRUE)}]

\* A service decorated twice before the task starts, then asked for by
\* name with its declared type and with an interface it implements.
DecoratedByInterface ==
    [Scenario(<<Provider(1, "myService", ServiceType, 0, <<>>, FALSE)>>, {},
              {ResolveNamed("myService", ServiceType),
               ResolveNamed("myService", CloseableType)}, 1, MaxCallsShort)
     EXCEPT !.predecs = <<Decorator(1, "myService", ServiceType, 10, <<>>, FALSE),
                          Decorator(2, "myService", ServiceType, 5, <<>>, FALSE)>>]

\* Registrations that depend on the string named APP_ENV, whose factory
\* may fail and which a later provider of higher priority may replace, and
\* on a string named FEATURE that nothing provides.
Conditionals ==
    [Scenario(<<Provider(1, "APP_ENV", StringType, 0, <<>>, TRUE)>>,
              {Provider(2, "APP_ENV", StringType, 10, <<>>, FALSE)},
              {ResolveNamed("devService", ServiceType)}, 1, MaxCalls)
     EXCEPT !.strings = <<"dev", "production">>,
            !.conditional =
                {Conditional("provider", Provider(3, "devService", ServiceType, 0, <<>>, FALSE),
                             <<Condition("APP_ENV", "equals", "dev")>>),
                 Conditional("provider", Provider(4, "prodService", ServiceType, 0, <<>>, FALSE),
                             <<Condition("APP_ENV", "notEquals", "dev")>>),
                 Conditional("provider", Provider(5, "featured", ServiceType, 0, <<>>, FALSE),
                             <<Condition("APP_ENV", "equals", "dev"),
                               Condition("FEATURE", "notEquals", "on")>>),
                 Conditional("decorator", Decorator(3, "devService", ServiceType, 0, <<>>, FALSE),
                             <<Condition("APP_ENV", "equals", "dev")>>)}]

\* Optional resolutions that find nothing, find too much, or find one
\* provider whose factory fails, whose dependency is missing, or which is on
\* a cycle.
Optionals ==
    Scenario(<<Provider(1, "flaky", ServiceType, 0, <<>>, TRUE),
               Provider(2, "needy", RepoType, 0, <<InjectNamed("missing", StringType)>>, FALSE),
               Provider(3, "A", StringType, 0, <<InjectNamed("B", StringType)>>, FALSE),
               Provider(4, "B", StringType, 0, <<InjectNamed("A", StringType)>>, FALSE)>>,
             {},
             {TryResolve(ServiceType), TryResolve(RepoType), TryResolve(StringType),
              TryResolve(ControllerType), TryResolveNamed("A", StringType),
              TryResolveNamed("missing", StringType)}, 1, MaxCalls)

\* Two services, one repository and, later, one controller, asked for by
\* type: by a type two names have, by a type one name has, by a type no
\* name has yet, and by an interface several names implement.
Uniques ==
    Scenario(<<Provider(1, "a", ServiceType, 0, <<>>, FALSE),
               Provider(2, "b", ServiceType, 0, <<>>, FALSE),
               Provider(3, "r", RepoType, 0, <<>>, FALSE)>>,
             {Provider(4, "c", ControllerType, 0, <<>>, FALSE)},
             {Resolve(ServiceType), Resolve(RepoType), Resolve(ControllerType),
              Resolve(CloseableType)}, 1, MaxCalls)

\* A service that takes a repository whose Close may fail, and a controller
\* (which has no Close) whose factory takes the resolver; the resolver is
\* closed between the resolutions.
Closing ==
    [Scenario(<<Provider(1, "svc", ServiceType, 0, <<InjectAuto(RepoType)>>, FALSE),
                Provider(2, "repo", RepoType, 0, <<>>, FALSE),
                Provider(3, "dynamic", ControllerType, 0, <<InjectAuto(ResolverType)>>, FALSE)>>,
              {},
              {Resolve(ServiceType), Resolve(ControllerType), ResolveAll(CloseableType)},
              1, MaxCallsShort)
     EXCEPT !.close = TRUE, !.failing = {2}]

\* A factory that takes the resolver, and a second resolver that is
\* registered later, as a static provider, under the name of the first.
Self ==
    Scenario(<<Provider(1, "dynamic", ControllerType, 0, <<InjectAuto(ResolverType)>>, FALSE)>>,
             {ToStaticProvider(Provider(2, "godi.resolver", ResolverType, 0, <<>>, FALSE))},
             {ResolveNamed("godi.resolver", ResolverType), Resolve(ControllerType)},
             1, MaxCallsShort)

\* Two initializers and two unsafe initializers that may fail; the factory
\* of the second unsafe initializer may fail too.
Initializers ==
    [Scenario(<<Provider(1, "init1", InitializerType, 0, <<>>, FALSE),
                Provider(2, "init2", InitializerType, 0, <<>>, FALSE),
                Provider(3, "unsafe1", UnsafeInitializerType, 0, <<>>, FALSE),
                Provider(4, "unsafe2", UnsafeInitializerType, 0, <<>>, TRUE)>>,
              {}, {}, 1, MaxCallsShort)
     EXCEPT !.initialize = TRUE, !.failing = {3, 4}]

\* A service whose factory may panic, with a decorator that may panic.
Panics ==
    [Scenario(<<Provider(1, "svc", ServiceType, 0, <<>>, TRUE)>>, {},
              {Resolve(ServiceType)}, 1, MaxCallsShort)
     EXCEPT !.predecs = <<Decorator(1, "svc", ServiceType, 0, <<>>, TRUE)>>,
            !.panics = TRUE]

\* A controller that takes a map of every closer by name, where a service
\* and a repository have the same name string once the repository is
\* registered.
Maps ==
    Scenario(<<Provider(1, "a", ServiceType, 0, <<>>, FALSE),
               Provider(2, "holder", ControllerType, 0,
                        <<InjectMultipleAsMap(CloseableType)>>, FALSE)>>,
             {Provider(3, "a", RepoType, 0, <<>>, FALSE)},
             {Resolve(ControllerType)}, 1, MaxCallsShort)

\* Strings registered as static providers, each under its own name, while
\* a task keeps asking for the last of them by name.
Registering ==
    [Scenario(<<>>, {ToStaticProvider(Provider(1, "foobar-1", StringType, 0, <<>>, FALSE)),
                     ToStaticProvider(Provider(2, "foobar-2", StringType, 0, <<>>, FALSE))},
              {TryResolveNamed("foobar-2", StringType)}, 1, MaxCalls)
     EXCEPT !.strings = <<"foobar-1", "foobar-2">>]

\* A name and its dependency, whose factory may fail, resolved by several
\* tasks at once: some from the name, some from the dependency.
Chain ==
    Scenario(<<Provider(1, "A", StringType, 0, <<InjectNamed("B", StringType)>>, FALSE),
               Provider(2, "B", StringType, 0, <<>>, FALSE)>>,
             {}, {ResolveNamed("A", StringType), ResolveNamed("B", StringType)},
             MaxTasks, MaxCallsShort)

\* Two factories that take the resolver and resolve a name with it: the
\* first a static string, as in "it should allow to inject resolver into a
\* provider", the second the very name it is constructing.
Reentrant ==
    [Scenario(<<Provider(1, "svc", ServiceType, 0, <<InjectAuto(ResolverType)>>, FALSE),
                Provider(2, "loop", ControllerType, 0, <<InjectAuto(ResolverType)>>, FALSE),
                ToStaticProvider(Provider(3, "str.foo", StringType, 0, <<>>, FALSE))>>,
              {}, {Resolve(ServiceType), Resolve(ControllerType)}, 1, MaxCallsShort)
     EXCEPT !.reenters = <<ResolveNamed("str.foo", StringType), Resolve(ControllerType)>>]

\* A service whose factory may fail, asked for by every task while a
\* decorator is registered for it.
LateDecorator ==
    [Scenario(<<Provider(1, "myService", ServiceType, 0, <<>>, TRUE)>>, {},
              {Resolve(ServiceType)}, MaxTasks, MaxCalls)
     EXCEPT !.decs = {Decorator(1, "myService", ServiceType, 0, <<>>, FALSE)}]

Scenarios ==
    <<Singleton, ByInterface, Cycle2, Cycle3, Diamond, DiamondByInterface,
      Priorities, EqualPriorities, Many, WithDecorators, DecoratedByInterface, Conditionals,
      Optionals, Uniques, Closing, Self,
      Initializers, Panics, Maps, Registering, Chain, Reentrant,
      LateDecorator>>

\* val.String(): the string a factory of the scenario returns.
StringOf(comp) ==
    IF comp.p \in DOMAIN Scenarios[scen].strings THEN Scenarios[scen].strings[comp.p] ELSE ""

\* A validateCondition that takes a missing component for the empty string.
validateConditionMissingAsEmpty(cond, ret) ==
    ret.err = "none" /\ operator(cond, IF ret.found THEN StringOf(ret.val) ELSE "")

\* validateCondition, given what resolve returned for the named string.
validateCondition(cond, ret) ==
    IF ret.err # "none" \/ ~ret.found THEN FALSE
    ELSE operator(cond, StringOf(ret.val))

RECURSIVE RegisterAll(_, _, _)
RegisterAll(list, toAdd, i) ==
    IF i > Len(toAdd) THEN list
    ELSE RegisterAll(Add(TRUE, list, toAdd[i]), toAdd, i + 1)

\* Register(decorator) for each decorator in turn: the list of its name is
\* loaded or created and the decorator added.
RECURSIVE RegisterDecorators(_, _, _)
RegisterDecorators(lists, toAdd, i) ==
    IF i > Len(toAdd) THEN lists
    ELSE LET n == ForName(toAdd[i])
             current == IF n \in DOMAIN lists THEN lists[n] ELSE <<>>
         IN RegisterDecorators(Put(lists, n, Add(FALSE, current, toAdd[i])), toAdd, i + 1)

\* The lock entries these registrations leave in the lock manager: one
\* unlocked mutex per decorated name.
DecoratedNames(sc) == {ForName(sc.predecs[i]) : i \in 1..Len(sc.predecs)}

RegisterLocks(sc) ==
    CHOOSE lk \in [DecoratedNames(sc) -> 1..Cardinality(DecoratedNames(sc))] :
        \A n, m \in DecoratedNames(sc) : lk[n] = lk[m] => n = m

\* New(): an empty store, no lock, and the resolver registered as a static
\* provider of itself.
New == Add(TRUE, <<>>, ResolverProvider)

\* The resolver after New() and the registrations of the scenario.
InitResolver ==
    /\ scen \in 1..Len(Scenarios)
    /\ providers = RegisterAll(New, Scenarios[scen].pre, 1)
    /\ pending = Scenarios[scen].late
    /\ store = <<>>
    /\ locks = RegisterLocks(Scenarios[scen])
    /\ holder = [m \in 1..Cardinality(DecoratedNames(Scenarios[scen])) |-> 0]
    /\ stack = [t \in Tasks |-> <<>>]
    /\ hist = [t \in Tasks |-> <<>>]
    /\ calls = 0
    /\ invoked = {}
    /\ registered = [i \in 1..Len(Scenarios[scen].pre) |-> Scenarios[scen].pre[i].id]
    /\ decorators = RegisterDecorators(<<>>, Scenarios[scen].predecs, 1)
    /\ regs = <<>>

Init == InitResolver /\ NoItems /\ NoTrackers

\* The scenarios one task runs alone, and the resolver started in one of them.
Sequential == {i \in 1..Len(Scenarios) : Scenarios[i].tasks = 1}

InitSequential == Init /\ scen \in Sequential

(***************************************************************************)
(* Mutexes of the lock manager: holder maps each mutex that is still       *)
(* referred to, by the lock manager or by a call, to the task holding it   *)
(* (0 when unlocked).                                                      *)
(***************************************************************************)
\* A mutex never handed out before.
FreshMutex == CHOOSE m \in 1..(Cardinality(DOMAIN holder) + 1) : m \notin DOMAIN holder

\* The mutexes some call or the lock manager still refers to.
Referenced(lk, stk) ==
    {lk[n] : n \in DOMAIN lk} \cup
    UNION {{stk[t][i].mutex : i \in {j \in 1..Len(stk[t]) : stk[t][j].mutex # 0}} : t \in Tasks}

(***************************************************************************)
(* Register(provider): SortedCOWSlice.Add on the provider list.            *)
(***************************************************************************)
Register(p) ==
    /\ p \in pending
    /\ providers' = Add(TRUE, providers, p)
    /\ pending' = pending \ {p}
    /\ registered' = Append(registered, p.id)
    /\ UNCHANGED <<sliceVars, trackerVars, scen, store, locks, holder, stack, hist, calls, invoked, decorators, regs>>

(***************************************************************************)
(* Register(decorator): the lock of the decorated name is taken, the list  *)
(* of the name is loaded or created, the decorator is added, and the lock  *)
(* is unlocked (its entry stays in the lock manager).  regs holds the      *)
(* registrations in progress, one per decorator.                           *)
(***************************************************************************)
\* The decorators of the scenario, registered with or without conditions.
Decorators ==
    Scenarios[scen].decs \cup
    {c.item : c \in {d \in Scenarios[scen].conditional : d.kind = "decorator"}}

RegisterGetLockFor(dec) ==
    /\ \/ dec \in Scenarios[scen].decs /\ dec.id \notin DOMAIN regs
       \/ dec.id \in DOMAIN regs /\ regs[dec.id].pc = "getlock"
    /\ LET n == ForName(dec)
       IN IF n \in DOMAIN locks
          THEN /\ regs' = Put(regs, dec.id, [pc |-> "lock", mutex |-> locks[n], at |-> Zero])
               /\ UNCHANGED <<locks, holder>>
          ELSE /\ regs' = Put(regs, dec.id, [pc |-> "lock", mutex |-> FreshMutex, at |-> Zero])
               /\ locks' = Put(locks, n, FreshMutex)
               /\ holder' = Put(holder, FreshMutex, 0)
    /\ UNCHANGED <<sliceVars, trackerVars, scen, providers, pending, store, stack, hist, calls, invoked, registered,
                   decorators>>

RegisterLock(dec) ==
    /\ dec.id \in DOMAIN regs
    /\ regs[dec.id].pc = "lock"
    /\ holder[regs[dec.id].mutex] = 0
    /\ holder' = [holder EXCEPT ![regs[dec.id].mutex] = 0 - dec.id]
    /\ regs' = [regs EXCEPT ![dec.id].pc = "load"]
    /\ UNCHANGED <<sliceVars, trackerVars, scen, providers, pending, store, locks, stack, hist, calls, invoked,
                   registered, decorators>>

\* A Store in place of LoadOrStore: the name gets a new, empty list whether
\* it has one or not.
RegisterStore(dec) ==
    /\ dec.id \in DOMAIN regs
    /\ regs[dec.id].pc = "load"
    /\ decorators' = Put(decorators, ForName(dec), <<>>)
    /\ regs' = [regs EXCEPT ![dec.id].pc = "add"]
    /\ UNCHANGED <<sliceVars, trackerVars, scen, providers, pending, store, locks, holder, stack, hist, calls,
                   invoked, registered>>

\* decorators.LoadOrStore(name, NewSortedCOWSlice(compareByPriority)): the
\* list of the name, which is created, empty, when the name has none.
RegisterLoadOrStore(dec) ==
    /\ dec.id \in DOMAIN regs
    /\ regs[dec.id].pc = "load"
    /\ decorators' = IF ForName(dec) \in DOMAIN decorators THEN decorators
                     ELSE Put(decorators, ForName(dec), <<>>)
    /\ regs' = [regs EXCEPT ![dec.id].pc = "add"]
    /\ UNCHANGED <<sliceVars, trackerVars, scen, providers, pending, store, locks, holder, stack, hist, calls,
                   invoked, registered>>

\* What the store holds for the name when the decorator is added (kept with
\* the registration, to tell the decorators that came after the component).
StoredAt(n) == IF n \in DOMAIN store THEN store[n] ELSE Zero

\* Add on the list LoadOrStore returned, which is the list of the name.
RegisterAdd(dec) ==
    /\ dec.id \in DOMAIN regs
    /\ regs[dec.id].pc = "add"
    /\ LET n == ForName(dec)
           current == decorators[n]
       IN /\ decorators' = Put(decorators, n, Add(FALSE, current, dec))
          /\ regs' = [regs EXCEPT ![dec.id].pc = "unlock", ![dec.id].at = StoredAt(n)]
    /\ UNCHANGED <<sliceVars, trackerVars, scen, providers, pending, store, locks, holder, stack, hist, calls, invoked,
                   registered>>

RegisterUnlock(dec) ==
    /\ dec.id \in DOMAIN regs
    /\ regs[dec.id].pc = "unlock"
    /\ LET held == [holder EXCEPT ![regs[dec.id].mutex] = 0]
       IN holder' = [m \in DOMAIN holder \cap
                          (Referenced(locks, stack) \cup
                           {regs[i].mutex : i \in DOMAIN regs \ {dec.id}}) |-> held[m]]
    /\ regs' = [regs EXCEPT ![dec.id] = [pc |-> "done", mutex |-> 0, at |-> regs[dec.id].at]]
    /\ UNCHANGED <<sliceVars, trackerVars, scen, providers, pending, store, locks, stack, hist, calls, invoked,
                   registered, decorators>>

(***************************************************************************)
(* Register with conditions, called by a task: each condition is validated *)
(* in turn (a resolution of the named string); the first one that fails    *)
(* ends the call, which returns nil; when all hold the provider is added,  *)
(* or the decorator registered as above.                                   *)
(***************************************************************************)
RegisterFrame(c) ==
    [Frame("register", "conditions", RegisterReq, NoTracker, <<>>, <<>>, 1, <<>>,
           c.item, NoName, 0, Zero, NoRet) EXCEPT !.reg = c]

\* The registrations with conditions a task has called so far.
Attempted ==
    UNION {{stack[t][i].reg : i \in 1..Len(stack[t])} \cup
           {hist[t][i].reg : i \in 1..Len(hist[t])} : t \in Tasks}

RegisterStart(t, c) ==
    /\ t <= Scenarios[scen].tasks
    /\ c \in Scenarios[scen].conditional \ Attempted
    /\ stack[t] = <<>>
    /\ calls < MaxCalls /\ calls < Scenarios[scen].calls
    /\ \A u \in 1..(t - 1) : hist[u] # <<>> \/ stack[u] # <<>>
    /\ stack' = [stack EXCEPT ![t] = <<RegisterFrame(c)>>]
    /\ calls' = calls + 1
    /\ UNCHANGED <<sliceVars, trackerVars, scen, providers, pending, store, locks, holder, hist, invoked, registered,
                   decorators, regs>>

\* The loop over the conditions: validateCondition resolves the next one.
RegisterConditions(t) ==
    /\ At(t, "register", "conditions")
    /\ LET f == Top(t)
       IN IF f.idx > Len(f.reg.conds)
          THEN stack' = SetTop(t, [f EXCEPT !.pc = "add"])
          ELSE stack' = [stack EXCEPT ![t] =
                   Append(@, ResolveFrame(ConditionRequest(f.reg.conds[f.idx]), NewTracker))]
    /\ UNCHANGED <<sliceVars, trackerVars, scen, providers, pending, store, locks, holder, hist, calls, invoked,
                   registered, decorators, regs>>

\* All conditions hold: r.providers.Add(provider), or the registration of
\* the decorator starts.
RegisterAdmitted(t) ==
    /\ At(t, "register", "add")
    /\ LET f == Top(t)
       IN IF f.reg.kind = "provider"
          THEN /\ providers' = Add(TRUE, providers, f.reg.item)
               /\ registered' = Append(registered, f.reg.item.id)
               /\ stack' = SetTop(t, [f EXCEPT !.pc = "return"])
               /\ UNCHANGED regs
          ELSE /\ regs' = Put(regs, f.reg.item.id, [pc |-> "getlock", mutex |-> 0, at |-> Zero])
               /\ stack' = SetTop(t, [f EXCEPT !.pc = "wait"])
               /\ UNCHANGED <<providers, registered>>
    /\ UNCHANGED <<sliceVars, trackerVars, scen, pending, store, locks, holder, hist, calls, invoked, decorators>>

\* The decorator is registered and its lock unlocked.
RegisterDecorated(t) ==
    /\ At(t, "register", "wait")
    /\ regs[Top(t).reg.item.id].pc = "done"
    /\ stack' = SetTop(t, [Top(t) EXCEPT !.pc = "return"])
    /\ UNCHANGED <<sliceVars, trackerVars, scen, providers, pending, store, locks, holder, hist, calls, invoked,
                   registered, decorators, regs>>

\* Register returns nil.
RegisterReturn(t) ==
    /\ At(t, "register", "return")
    /\ LET f == Top(t)
       IN hist' = [hist EXCEPT ![t] = Append(@,
              [req |-> f.req, ret |-> Ret(Zero, <<>>, FALSE, "none", <<>>), snap |-> providers,
               early |-> FALSE, reg |-> f.reg, out |-> f.out, decs |-> decorators,
               store |-> store, locks |-> locks, since |-> f.since])]
    /\ stack' = [stack EXCEPT ![t] = <<>>]
    /\ UNCHANGED <<sliceVars, trackerVars, scen, providers, pending, store, locks, holder, calls, invoked, registered,
                   decorators, regs>>

(***************************************************************************)
(* A task calls Resolve, ResolveNamed, ResolveAll, TryResolve...           *)
(***************************************************************************)
\* No component the request asks for is in the store yet.
NothingStored(req) ==
    IF req.q = "name" THEN Name(req.name, req.typ) \notin DOMAIN store
    ELSE \A r \in find(req, providers, store) : ~r.stored

\* For a call of TryResolveNamed, the number of registrations of providers
\* that had returned when the call started.
RegisteredBefore(req) ==
    IF req.q = "name" /\ req.v = "optional" THEN Len(registered) ELSE 0

Start(t, req) ==
    /\ t <= Scenarios[scen].tasks
    /\ req \in Scenarios[scen].reqs
    /\ stack[t] = <<>>
    /\ calls < MaxCalls /\ calls < Scenarios[scen].calls
    /\ \A u \in 1..(t - 1) : hist[u] # <<>> \/ stack[u] # <<>>
    /\ stack' = [stack EXCEPT ![t] =
           <<[ResolveFrame(req, NewTracker) EXCEPT !.early = NothingStored(req),
                                                   !.since = RegisteredBefore(req)]>>]
    /\ calls' = calls + 1
    /\ UNCHANGED <<sliceVars, trackerVars, scen, providers, pending, store, locks, holder, hist, invoked, registered, decorators, regs>>

\* A read of the provider list that misses its last element.
LoadAllButLast(list) == SubSeq(list, 1, Len(list) - 1)

\* r.providers.All(): the slice the list holds when it is read.
LoadAll(list) == list

\* resolve: query.find on a snapshot of the provider list, then the
\* validator.
Find(t) ==
    /\ At(t, "resolve", "find")
    /\ LET f == Top(t)
           all == LoadAll(providers)
           rs == find(f.req, all, store)
           e == validate(f.req.v, Cardinality(rs))
       IN IF e # "none"
          THEN stack' = SetTop(t, [f EXCEPT !.pc = "return", !.snap = all,
                                            !.ret = Failed(e, <<>>)])
          ELSE \E ord \in Orderings(rs) :
                  stack' = SetTop(t, [f EXCEPT !.pc = "collect", !.snap = all,
                                               !.results = ord, !.idx = 1])
    /\ UNCHANGED <<sliceVars, trackerVars, scen, providers, pending, store, locks, holder, hist, calls, invoked, registered, decorators, regs>>

\* mapValue.SetMapIndex(key, val) on a map held as a list of entries with
\* distinct keys: the entry of the key is replaced, or a new one is added.
SetMapIndex(m, key, val) ==
    IF \E i \in 1..Len(m) : m[i].key = key
    THEN [i \in 1..Len(m) |-> IF m[i].key = key THEN [key |-> key, val |-> val] ELSE m[i]]
    ELSE Append(m, [key |-> key, val |-> val])

\* collectorMultipleAsMap.collect: every instance is put in the map under
\* the name string of its result.
RECURSIVE collectMultipleAsMap(_, _, _, _)
collectMultipleAsMap(results, instances, i, mapValue) ==
    IF i > Len(results) THEN mapValue
    ELSE collectMultipleAsMap(results, instances, i + 1,
                              SetMapIndex(mapValue, results[i].name.name, instances[i]))

\* collector.collect: a stored component is taken as it is, any other
\* result is built with provideUsing, one result after the other.
Collect(t) ==
    /\ At(t, "resolve", "collect")
    /\ LET f == Top(t)
       IN IF f.idx > Len(f.results)
          THEN stack' = SetTop(t, [f EXCEPT !.pc = "return", !.ret =
                   IF f.req.c = "unique"
                   THEN (IF Len(f.out) = 0 THEN NoRet ELSE Found(f.out[1]))
                   ELSE IF f.req.c = "map"
                   THEN Ret(Zero, collectMultipleAsMap(f.results, f.out, 1, <<>>), TRUE, "none",
                            <<>>)
                   ELSE Ret(Zero, f.out, TRUE, "none", <<>>)])
          ELSE LET r == f.results[f.idx]
               IN IF r.stored
                  THEN stack' = SetTop(t, [f EXCEPT !.out = Append(@, r.comp), !.idx = @ + 1])
                  ELSE stack' = Call(t, f, ProvideFrame(r.provider, r.name))
    /\ UNCHANGED <<sliceVars, trackerVars, scen, providers, pending, store, locks, holder, hist, calls, invoked, registered, decorators, regs>>

\* What the caller of a finished resolve does with its result.
Deliver(caller, ret) ==
    IF caller.kind = "register"
    THEN [caller EXCEPT !.out = Append(@, ret), !.idx = @ + 1,
                        !.pc = IF validateCondition(caller.reg.conds[caller.idx], ret)
                               THEN "conditions" ELSE "return"]
    ELSE IF caller.kind = "initialize"
    THEN (IF ret.err # "none"
          THEN [caller EXCEPT !.pc = "return", !.ret = Failed(ret.err, ret.chain)]
          ELSE [caller EXCEPT !.results = ret.vals, !.idx = 1,
                              !.pc = IF caller.pc = "initializers" THEN "run" ELSE "runUnsafe"])
    ELSE IF caller.kind = "close"
    THEN [caller EXCEPT !.out[Len(caller.out)].failed = ret.err # "none"]
    ELSE IF caller.kind = "provide" /\ caller.pc = "provide"
    THEN [caller EXCEPT !.dyn = ret]
    ELSE IF ret.err # "none"
    THEN [caller EXCEPT !.pc = "unlock", !.ret = Failed(ret.err, ret.chain)]
    ELSE [caller EXCEPT !.out = Append(@, ret.val), !.idx = @ + 1]

\* reflect.TypeOf of a component: the type its provider declares.
TypeOf(comp) ==
    (CHOOSE q \in {providers[i] : i \in 1..Len(providers)} : q.id = comp.p).name.typ

\* unReflect[T]: the type assertion succeeds on a value of type T, or of a
\* type implementing T.
unReflect(typ, comp) == matchType(typ, TypeOf(comp))

\* A resolveTyped that takes a failed resolution for a missing component.
resolveTypedNotFoundOnError(req, ret) ==
    IF ret.err # "none" \/ ~ret.found THEN NoRet
    ELSE ret

\* resolveTyped[T]: what the caller of Resolve, TryResolve... gets from the
\* result of resolve.
resolveTyped(req, ret) ==
    IF ret.err # "none" THEN Failed(ret.err, ret.chain)
    ELSE IF ~ret.found THEN NoRet
    ELSE IF req.c = "unique" /\ ~unReflect(req.typ, ret.val) THEN [ret EXCEPT !.err = "type"]
    ELSE ret

\* resolve returns: to the task (the call is over), to the
\* resolveDependencies loop or to the validateCondition that called it.
Return(t) ==
    /\ At(t, "resolve", "return")
    /\ LET f == Top(t)
       IN IF Depth(t) = 1
          THEN /\ stack' = [stack EXCEPT ![t] = <<>>]
               /\ hist' = [hist EXCEPT ![t] = Append(@,
                      [req |-> f.req, ret |-> resolveTyped(f.req, f.ret), snap |-> f.snap,
                       early |-> f.early,
                       reg |-> f.reg, out |-> <<>>, decs |-> <<>>, store |-> store, locks |-> locks, since |-> f.since])]
          ELSE /\ stack' = ReturnTo(t, Deliver(Below(t), f.ret))
               /\ UNCHANGED hist
    /\ UNCHANGED <<sliceVars, trackerVars, scen, providers, pending, store, locks, holder, calls, invoked, registered, decorators, regs>>

(***************************************************************************)
(* Resolver.Close, which is Store.Close: a Range over the entries of the    *)
(* store that calls Close on every value implementing Closeable and joins  *)
(* the errors.  Range visits every key once, in any order, and may or may  *)
(* not visit a key stored while it runs.  The resolver implements          *)
(* Closeable: its Close method is Resolver.Close.                          *)
(***************************************************************************)
IsValid(comp) == comp # Zero

\* comp.Type().Implements(CloseableType)
ImplementsCloseable(comp) == matchType(CloseableType, TypeOf(comp))

Keys(st) == CHOOSE sq \in Orderings(DOMAIN st) : TRUE

CloseFrame(st) ==
    Frame("close", "range", CloseReq, NoTracker, <<>>, Keys(st), 1, <<>>, NoProvider, NoName,
          0, Zero, NoRet)

\* The keys the Range of a call has visited.
Visited(f) == {f.out[i].name : i \in 1..Len(f.out)}

Entry(n, comp, called, failed) ==
    [name |-> n, comp |-> comp, called |-> called, failed |-> failed]

CloseStart(t) ==
    /\ t <= Scenarios[scen].tasks
    /\ Scenarios[scen].close
    /\ stack[t] = <<>>
    /\ calls < MaxCalls /\ calls < Scenarios[scen].calls
    /\ \A u \in 1..(t - 1) : hist[u] # <<>> \/ stack[u] # <<>>
    /\ stack' = [stack EXCEPT ![t] = <<CloseFrame(store)>>]
    /\ calls' = calls + 1
    /\ UNCHANGED <<sliceVars, trackerVars, scen, providers, pending, store, locks, holder, hist, invoked, registered,
                   decorators, regs>>

\* The function given to Range, on one entry of the store.
CloseRange(t) ==
    /\ At(t, "close", "range")
    /\ LET f == Top(t)
       IN \E n \in DOMAIN store \ Visited(f) :
             LET comp == store[n]
             IN IF ~(IsValid(comp) /\ ImplementsCloseable(comp))
                THEN stack' = SetTop(t, [f EXCEPT !.out = Append(@, Entry(n, comp, FALSE, FALSE))])
                ELSE IF comp.p = ResolverProvider.id
                THEN /\ Depth(t) < MaxNesting
                     /\ stack' = Call(t, [f EXCEPT !.out = Append(@, Entry(n, comp, TRUE, FALSE))],
                                      CloseFrame(store))
                ELSE \E failed \in (IF comp.p \in Scenarios[scen].failing
                                     THEN BOOLEAN ELSE {FALSE}) :
                        stack' = SetTop(t, [f EXCEPT !.out = Append(@, Entry(n, comp, TRUE, failed))])
    /\ UNCHANGED <<sliceVars, trackerVars, scen, providers, pending, store, locks, holder, hist, calls, invoked,
                   registered, decorators, regs>>

\* Range is over: errors.Join(closeErrors...) is returned.
CloseReturn(t) ==
    /\ At(t, "close", "range")
    /\ LET f == Top(t)
           ret == IF \E i \in 1..Len(f.out) : f.out[i].failed
                  THEN Failed("close", <<>>) ELSE NoRet
       IN /\ {f.results[i] : i \in 1..Len(f.results)} \subseteq Visited(f)
          /\ IF Depth(t) = 1
             THEN /\ stack' = [stack EXCEPT ![t] = <<>>]
                  /\ hist' = [hist EXCEPT ![t] = Append(@,
                         [req |-> f.req, ret |-> ret, snap |-> providers, early |-> FALSE,
                          reg |-> f.reg, out |-> f.out, decs |-> <<>>, store |-> store, locks |-> locks, since |-> f.since])]
             ELSE /\ stack' = ReturnTo(t, Deliver(Below(t), ret))
                  /\ UNCHANGED hist
    /\ UNCHANGED <<sliceVars, trackerVars, scen, providers, pending, store, locks, holder, calls, invoked, registered,
                   decorators, regs>>

(***************************************************************************)
(* Resolver.Initialize: the initializers are resolved and called, then the *)
(* unsafe initializers are resolved and called until one returns an error. *)
(***************************************************************************)
InitializeFrame ==
    Frame("initialize", "initializers", InitializeReq, NoTracker, <<>>, <<>>, 1, <<>>,
          NoProvider, NoName, 0, Zero, NoRet)

Ran(comp, unsafe, failed) == [comp |-> comp, unsafe |-> unsafe, failed |-> failed]

InitializeStart(t) ==
    /\ t <= Scenarios[scen].tasks
    /\ Scenarios[scen].initialize
    /\ stack[t] = <<>>
    /\ calls < MaxCalls /\ calls < Scenarios[scen].calls
    /\ \A u \in 1..(t - 1) : hist[u] # <<>> \/ stack[u] # <<>>
    /\ stack' = [stack EXCEPT ![t] = <<InitializeFrame>>]
    /\ calls' = calls + 1
    /\ UNCHANGED <<sliceVars, trackerVars, scen, providers, pending, store, locks, holder, hist, invoked, registered,
                   decorators, regs>>

\* ResolveAll[Initializer](r), then ResolveAll[UnsafeInitializer](r).
InitializeResolveAll(t) ==
    /\ At(t, "initialize", "initializers") \/ At(t, "initialize", "unsafe")
    /\ stack' = [stack EXCEPT ![t] = Append(@, ResolveFrame(
           ResolveAll(IF Top(t).pc = "initializers" THEN InitializerType
                      ELSE UnsafeInitializerType), NewTracker))]
    /\ UNCHANGED <<sliceVars, trackerVars, scen, providers, pending, store, locks, holder, hist, calls, invoked,
                   registered, decorators, regs>>

\* The first loop: init().
InitializeRun(t) ==
    /\ At(t, "initialize", "run")
    /\ LET f == Top(t)
       IN stack' = SetTop(t, IF f.idx > Len(f.results) THEN [f EXCEPT !.pc = "unsafe"]
                             ELSE [f EXCEPT !.out = Append(@, Ran(f.results[f.idx], FALSE, FALSE)),
                                            !.idx = @ + 1])
    /\ UNCHANGED <<sliceVars, trackerVars, scen, providers, pending, store, locks, holder, hist, calls, invoked,
                   registered, decorators, regs>>

\* An unsafe loop that goes on after an error and returns the last one.
RunUnsafeKeepGoing(f, failed) ==
    [f EXCEPT !.out = Append(@, Ran(f.results[f.idx], TRUE, failed)), !.idx = @ + 1,
              !.ret = IF failed THEN Failed("initializer", <<>>) ELSE @]

\* One turn of the second loop: err := init(), returned when it is not nil.
RunUnsafe(f, failed) ==
    IF failed
    THEN [f EXCEPT !.out = Append(@, Ran(f.results[f.idx], TRUE, TRUE)), !.pc = "return",
                   !.ret = Failed("initializer", <<>>)]
    ELSE [f EXCEPT !.out = Append(@, Ran(f.results[f.idx], TRUE, FALSE)), !.idx = @ + 1]

InitializeRunUnsafe(t) ==
    /\ At(t, "initialize", "runUnsafe")
    /\ LET f == Top(t)
       IN IF f.idx > Len(f.results)
          THEN stack' = SetTop(t, [f EXCEPT !.pc = "return"])
          ELSE \E failed \in (IF f.results[f.idx].p \in Scenarios[scen].failing
                               THEN BOOLEAN ELSE {FALSE}) :
                  stack' = SetTop(t, RunUnsafe(f, failed))
    /\ UNCHANGED <<sliceVars, trackerVars, scen, providers, pending, store, locks, holder, hist, calls, invoked,
                   registered, decorators, regs>>

InitializeReturn(t) ==
    /\ At(t, "initialize", "return")
    /\ LET f == Top(t)
       IN hist' = [hist EXCEPT ![t] = Append(@,
              [req |-> f.req, ret |-> f.ret, snap |-> providers, early |-> FALSE,
               reg |-> f.reg, out |-> f.out, decs |-> <<>>, store |-> store, locks |-> locks, since |-> f.since])]
    /\ stack' = [stack EXCEPT ![t] = <<>>]
    /\ UNCHANGED <<sliceVars, trackerVars, scen, providers, pending, store, locks, holder, calls, invoked, registered,
                   decorators, regs>>

(***************************************************************************)
(* provideUsing(p, name, tracker), step by step.  The tracker is the one   *)
(* of the resolve call that runs the collector (the frame below).          *)
(***************************************************************************)

\* What the collector does with the result of provideUsing.
Collected(collector, ret) ==
    IF ret.err # "none"
    THEN [collector EXCEPT !.pc = "return", !.ret = Failed(ret.err, ret.chain)]
    ELSE [collector EXCEPT !.out = Append(@, ret.val), !.idx = @ + 1]

\* tracker.Push(name): a name already visited is a cycle, and the call
\* returns before it takes any lock.
TrackerPush(t) ==
    /\ At(t, "provide", "push")
    /\ LET f == Top(t)
           c == Below(t)
       IN IF PushFails(c.trk, f.name)
          THEN stack' = ReturnTo(t, Collected(c, Failed("cycle", Cycle(c.trk, f.name))))
          ELSE stack' = SetBoth(t, [c EXCEPT !.trk = Push(c.trk, f.name)],
                                   [f EXCEPT !.pc = "getlock"])
    /\ UNCHANGED <<sliceVars, trackerVars, scen, providers, pending, store, locks, holder, hist, calls, invoked, registered, decorators, regs>>

\* LockManager.GetLockFor(name): the mutex of the name, created if absent.
GetLockFor(t) ==
    /\ At(t, "provide", "getlock")
    /\ LET f == Top(t)
       IN IF f.name \in DOMAIN locks
          THEN /\ stack' = SetTop(t, [f EXCEPT !.pc = "lock", !.mutex = locks[f.name]])
               /\ UNCHANGED <<locks, holder>>
          ELSE /\ stack' = SetTop(t, [f EXCEPT !.pc = "lock", !.mutex = FreshMutex])
               /\ locks' = Put(locks, f.name, FreshMutex)
               /\ holder' = Put(holder, FreshMutex, 0)
    /\ UNCHANGED <<sliceVars, trackerVars, scen, providers, pending, store, hist, calls, invoked, registered, decorators, regs>>

\* lock.Lock(): blocks while another call holds the mutex.
Lock(t) ==
    /\ At(t, "provide", "lock")
    /\ holder[Top(t).mutex] = 0
    /\ holder' = [holder EXCEPT ![Top(t).mutex] = t]
    /\ stack' = SetTop(t, [Top(t) EXCEPT !.pc = "check"])
    /\ UNCHANGED <<sliceVars, trackerVars, scen, providers, pending, store, locks, hist, calls, invoked, registered, decorators, regs>>

\* The component may have been built while the call waited for the lock.
CheckStore(t) ==
    /\ At(t, "provide", "check")
    /\ LET f == Top(t)
       IN IF StoreHas(store, f.name)
          THEN stack' = SetTop(t, [f EXCEPT !.pc = "unlock", !.ret = Found(store[f.name])])
          ELSE stack' = SetTop(t, [f EXCEPT !.pc = "deps", !.idx = 1, !.out = <<>>])
    /\ UNCHANGED <<sliceVars, trackerVars, scen, providers, pending, store, locks, holder, hist, calls, invoked, registered, decorators, regs>>

\* resolveDependencies: each request is resolved with a tracker cloned from
\* the caller's.
ResolveDependencies(t) ==
    /\ At(t, "provide", "deps")
    /\ LET f == Top(t)
       IN IF f.idx > Len(f.prov.deps)
          THEN stack' = SetTop(t, [f EXCEPT !.pc = "provide"])
          ELSE stack' = [stack EXCEPT ![t] =
                   Append(@, ResolveFrame(f.prov.deps[f.idx], NewTrackerFrom(Below(t).trk)))]
    /\ UNCHANGED <<sliceVars, trackerVars, scen, providers, pending, store, locks, holder, hist, calls, invoked, registered, decorators, regs>>

Invocations(p) == Cardinality({c \in invoked : c.p = p})

\* What a factory returns on its k-th call: a new component, or the one
\* value of a static provider.
FactoryValue(p, k) == IF p.static THEN Value(p.id, 0) ELSE Value(p.id, k)

\* How the body of a factory or of a decorator can end.
Outcomes(flaky) ==
    IF ~flaky THEN {"ok"}
    ELSE IF Scenarios[scen].panics THEN {"ok", "error", "panic"} ELSE {"ok", "error"}

\* A Provide without recover that takes the results of a body that did not
\* return for a component and no error.
ProvideNoRecover(p, k, outcome) ==
    IF outcome = "error" THEN Failed("factory", <<>>)
    ELSE Found(IF outcome = "ok" THEN FactoryValue(p, k) ELSE Zero)

\* FactoryMethodProvider.Provide: the component, the error the factory
\* returned, or the error made of the recovered panic and the provider's name.
ProvideResult(p, k, outcome) ==
    IF outcome = "panic" THEN Failed("panic", <<p.name>>)
    ELSE IF outcome = "error" THEN Failed("factory", <<>>)
    ELSE Found(FactoryValue(p, k))

\* FactoryMethodDecorator.Decorate: the same for a decorator.
DecorateResult(comp, dec, outcome) ==
    IF outcome = "panic" THEN Failed("panic", <<dec.name>>)
    ELSE IF outcome = "error" THEN Failed("decorator", <<>>)
    ELSE Found(Decorated(comp, dec))

\* The factories whose body calls the resolver it was given.
Reenters(p) == p.id \in DOMAIN Scenarios[scen].reenters

\* The body of a factory that was given the resolver calls ResolveNamed or
\* Resolve on it: a resolve of its own, with a tracker of its own.
Reenter(t) ==
    /\ At(t, "provide", "provide")
    /\ Reenters(Top(t).prov) /\ ~Top(t).reentered
    /\ stack' = Call(t, [Top(t) EXCEPT !.reentered = TRUE],
                        ResolveFrame(Scenarios[scen].reenters[Top(t).prov.id], NewTracker))
    /\ UNCHANGED <<sliceVars, trackerVars, scen, providers, pending, store, locks, holder, hist, calls,
                   invoked, registered, decorators, regs>>

\* How the body of the factory ends: with an error when the resolution it
\* made failed.
BodyOutcomes(f) ==
    IF f.reentered /\ f.dyn.err # "none" THEN {"error"} ELSE Outcomes(f.prov.flaky)

\* p.Provide(name, dependencies): the factory runs and returns its
\* component, or (a factory that can fail) an error.
Provide(t) ==
    /\ At(t, "provide", "provide")
    /\ Reenters(Top(t).prov) => Top(t).reentered
    /\ LET f == Top(t)
           k == Invocations(f.prov.id) + 1
       IN \E outcome \in BodyOutcomes(f) :
             LET r == ProvideResult(f.prov, k, outcome)
             IN /\ invoked' = invoked \cup {[p |-> f.prov.id, name |-> f.name, k |-> k,
                                              ok |-> outcome = "ok", panic |-> outcome = "panic"]}
                /\ stack' = SetTop(t, IF r.err = "none"
                                      THEN [f EXCEPT !.pc = "load", !.comp = r.val]
                                      ELSE [f EXCEPT !.pc = "unlock", !.ret = r])
    /\ UNCHANGED <<sliceVars, trackerVars, scen, providers, pending, store, locks, holder, hist, calls, registered, decorators, regs>>

\* decorators.Load(name) and All(): the decorators to apply, as a snapshot.
LoadDecorators(t) ==
    /\ At(t, "provide", "load")
    /\ LET f == Top(t)
       IN stack' = SetTop(t, [f EXCEPT !.pc = "decdeps", !.didx = 1, !.idx = 1, !.out = <<>>,
                                       !.decs = IF f.name \in DOMAIN decorators
                                                THEN decorators[f.name] ELSE <<>>])
    /\ UNCHANGED <<sliceVars, trackerVars, scen, providers, pending, store, locks, holder, hist, calls, invoked,
                   registered, decorators, regs>>

\* The loop over the decorators: resolveDependencies for the next one.
DecoratorDependencies(t) ==
    /\ At(t, "provide", "decdeps")
    /\ LET f == Top(t)
       IN IF f.didx > Len(f.decs)
          THEN stack' = SetTop(t, [f EXCEPT !.pc = "put"])
          ELSE IF f.idx > Len(f.decs[f.didx].deps)
          THEN stack' = SetTop(t, [f EXCEPT !.pc = "decorate"])
          ELSE stack' = [stack EXCEPT ![t] =
                   Append(@, ResolveFrame(f.decs[f.didx].deps[f.idx],
                                          NewTrackerFrom(Below(t).trk)))]
    /\ UNCHANGED <<sliceVars, trackerVars, scen, providers, pending, store, locks, holder, hist, calls, invoked,
                   registered, decorators, regs>>

\* decorator.Decorate(comp, dependencies): the decorated component, or (a
\* decorator that can fail) an error.
Decorate(t) ==
    /\ At(t, "provide", "decorate")
    /\ LET f == Top(t)
           dec == f.decs[f.didx]
       IN \E outcome \in Outcomes(dec.flaky) :
             LET r == DecorateResult(f.comp, dec, outcome)
             IN stack' = SetTop(t, IF r.err = "none"
                                   THEN [f EXCEPT !.pc = "decdeps", !.comp = r.val,
                                                  !.didx = @ + 1, !.idx = 1, !.out = <<>>]
                                   ELSE [f EXCEPT !.pc = "unlock", !.ret = r])
    /\ UNCHANGED <<sliceVars, trackerVars, scen, providers, pending, store, locks, holder, hist, calls, invoked,
                   registered, decorators, regs>>

\* A provideUsing that pops the tracker and returns the component without
\* storing it.
PopWithoutPut(t) ==
    /\ At(t, "provide", "put")
    /\ stack' = SetBoth(t, [Below(t) EXCEPT !.trk = Pop(Below(t).trk)],
                           [Top(t) EXCEPT !.pc = "unlock", !.ret = Found(Top(t).comp)])
    /\ UNCHANGED <<sliceVars, trackerVars, scen, providers, pending, store, locks, holder, hist, calls,
                   invoked, registered, decorators, regs>>

\* tracker.Pop() and store.Put(name, comp).
StorePut(t) ==
    /\ At(t, "provide", "put")
    /\ LET f == Top(t)
           c == Below(t)
       IN /\ store' = Put(store, f.name, f.comp)
          /\ stack' = SetBoth(t, [c EXCEPT !.trk = Pop(c.trk)],
                                 [f EXCEPT !.pc = "unlock", !.ret = Found(f.comp)])
    /\ UNCHANGED <<sliceVars, trackerVars, scen, providers, pending, locks, holder, hist, calls, invoked, registered, decorators, regs>>

\* A deferred function that goes on to ReleaseLock without unlocking.
UnlockMissing(t) ==
    /\ At(t, "provide", "unlock")
    /\ stack' = SetTop(t, [Top(t) EXCEPT !.pc = "release"])
    /\ UNCHANGED <<sliceVars, trackerVars, scen, providers, pending, store, locks, holder, hist, calls,
                   invoked, registered, decorators, regs>>

\* The deferred lock.Unlock().
Unlock(t) ==
    /\ At(t, "provide", "unlock")
    /\ holder' = [holder EXCEPT ![Top(t).mutex] = 0]
    /\ stack' = SetTop(t, [Top(t) EXCEPT !.pc = "release"])
    /\ UNCHANGED <<sliceVars, trackerVars, scen, providers, pending, store, locks, hist, calls, invoked, registered, decorators, regs>>

Remove(fn, n) == [m \in DOMAIN fn \ {n} |-> fn[m]]

\* A return that leaves the entry of the name in the lock manager.
ReturnKeepingLock(t) ==
    /\ At(t, "provide", "release")
    /\ stack' = ReturnTo(t, Collected(Below(t), Top(t).ret))
    /\ UNCHANGED <<sliceVars, trackerVars, scen, providers, pending, store, locks, holder, hist, calls,
                   invoked, registered, decorators, regs>>

\* The deferred LockManager.ReleaseLock(name): the entry of the name is
\* deleted, whichever mutex it holds; then provideUsing returns.
ReleaseLock(t) ==
    /\ At(t, "provide", "release")
    /\ LET f == Top(t)
       IN /\ locks' = Remove(locks, f.name)
          /\ stack' = ReturnTo(t, Collected(Below(t), f.ret))
    /\ holder' = [m \in DOMAIN holder \cap
                       (Referenced(locks', stack') \cup {regs[i].mutex : i \in DOMAIN regs})
                    |-> holder[m]]
    /\ UNCHANGED <<sliceVars, trackerVars, scen, providers, pending, store, hist, calls, invoked, registered, decorators, regs>>

Next ==
    \/ \E p \in pending : Register(p)
    \/ \E dec \in Decorators : RegisterGetLockFor(dec)
    \/ \E dec \in Decorators : RegisterLock(dec)
    \/ \E dec \in Decorators : RegisterLoadOrStore(dec)
    \/ \E dec \in Decorators : RegisterAdd(dec)
    \/ \E dec \in Decorators : RegisterUnlock(dec)
    \/ \E t \in Tasks, c \in Scenarios[scen].conditional : RegisterStart(t, c)
    \/ \E t \in Tasks : RegisterConditions(t)
    \/ \E t \in Tasks : RegisterAdmitted(t)
    \/ \E t \in Tasks : RegisterDecorated(t)
    \/ \E t \in Tasks : RegisterReturn(t)
    \/ \E t \in Tasks : InitializeStart(t)
    \/ \E t \in Tasks : InitializeResolveAll(t)
    \/ \E t \in Tasks : InitializeRun(t)
    \/ \E t \in Tasks : InitializeRunUnsafe(t)
    \/ \E t \in Tasks : InitializeReturn(t)
    \/ \E t \in Tasks : CloseStart(t)
    \/ \E t \in Tasks : CloseRange(t)
    \/ \E t \in Tasks : CloseReturn(t)
    \/ \E t \in Tasks, req \in Scenarios[scen].reqs : Start(t, req)
    \/ \E t \in Tasks : Find(t)
    \/ \E t \in Tasks : Collect(t)
    \/ \E t \in Tasks : Return(t)
    \/ \E t \in Tasks : TrackerPush(t)
    \/ \E t \in Tasks : GetLockFor(t)
    \/ \E t \in Tasks : Lock(t)
    \/ \E t \in Tasks : CheckStore(t)
    \/ \E t \in Tasks : ResolveDependencies(t)
    \/ \E t \in Tasks : Reenter(t)
    \/ \E t \in Tasks : Provide(t)
    \/ \E t \in Tasks : LoadDecorators(t)
    \/ \E t \in Tasks : DecoratorDependencies(t)
    \/ \E t \in Tasks : Decorate(t)
    \/ \E t \in Tasks : StorePut(t)
    \/ \E t \in Tasks : Unlock(t)
    \/ \E t \in Tasks : ReleaseLock(t)

Spec == Init /\ [][Next]_vars

SpecSequential == InitSequential /\ [][Next]_vars

\* The scenarios where one task resolves while providers are registered,
\* without conditions and without decorators, and the steps they take.
Registrations ==
    {i \in Sequential :
        /\ Scenarios[i].late # {}
        /\ Scenarios[i].conditional = {}
        /\ Scenarios[i].decs = {} /\ Scenarios[i].predecs = <<>>
        /\ ~Scenarios[i].close /\ ~Scenarios[i].initialize}

InitRegistrations == Init /\ scen \in Registrations

NextRegistrations ==
    \/ \E p \in pending : Register(p)
    \/ \E t \in Tasks, req \in Scenarios[scen].reqs : Start(t, req)
    \/ \E t \in Tasks : Find(t)
    \/ \E t \in Tasks : Collect(t)
    \/ \E t \in Tasks : Return(t)
    \/ \E t \in Tasks : TrackerPush(t)
    \/ \E t \in Tasks : GetLockFor(t)
    \/ \E t \in Tasks : Lock(t)
    \/ \E t \in Tasks : CheckStore(t)
    \/ \E t \in Tasks : ResolveDependencies(t)
    \/ \E t \in Tasks : Provide(t)
    \/ \E t \in Tasks : LoadDecorators(t)
    \/ \E t \in Tasks : DecoratorDependencies(t)
    \/ \E t \in Tasks : StorePut(t)
    \/ \E t \in Tasks : Unlock(t)
    \/ \E t \in Tasks : ReleaseLock(t)

SpecRegistrations == InitRegistrations /\ [][NextRegistrations]_vars

\* The scenarios where one task resolves names whose construction can fail
\* (the factory, a dependency or a decorator), and the steps they take.
CanFail(sc) ==
    \/ \E i \in 1..Len(sc.pre) : sc.pre[i].flaky
    \/ \E i \in 1..Len(sc.predecs) : sc.predecs[i].flaky
    \/ \E dec \in sc.decs : dec.flaky

Failures ==
    {i \in Sequential :
        /\ CanFail(Scenarios[i])
        /\ Scenarios[i].conditional = {}
        /\ ~Scenarios[i].close /\ ~Scenarios[i].initialize}

InitFailures == Init /\ scen \in Failures

NextFailures ==
    \/ \E dec \in Decorators : RegisterGetLockFor(dec)
    \/ \E dec \in Decorators : RegisterLock(dec)
    \/ \E dec \in Decorators : RegisterLoadOrStore(dec)
    \/ \E dec \in Decorators : RegisterAdd(dec)
    \/ \E dec \in Decorators : RegisterUnlock(dec)
    \/ \E t \in Tasks, req \in Scenarios[scen].reqs : Start(t, req)
    \/ \E t \in Tasks : Find(t)
    \/ \E t \in Tasks : Collect(t)
    \/ \E t \in Tasks : Return(t)
    \/ \E t \in Tasks : TrackerPush(t)
    \/ \E t \in Tasks : GetLockFor(t)
    \/ \E t \in Tasks : Lock(t)
    \/ \E t \in Tasks : CheckStore(t)
    \/ \E t \in Tasks : ResolveDependencies(t)
    \/ \E t \in Tasks : Provide(t)
    \/ \E t \in Tasks : LoadDecorators(t)
    \/ \E t \in Tasks : DecoratorDependencies(t)
    \/ \E t \in Tasks : Decorate(t)
    \/ \E t \in Tasks : StorePut(t)
    \/ \E t \in Tasks : Unlock(t)
    \/ \E t \in Tasks : ReleaseLock(t)

SpecFailures == InitFailures /\ [][NextFailures]_vars

\* The scenarios where several tasks resolve the names of an acyclic
\* dependency graph at once, and the steps they take.  Every task that is
\* inside a call keeps running: the scheduler does not leave a goroutine
\* that can take a step waiting forever.
AcyclicGraphs == {i \in 1..Len(Scenarios) : Scenarios[i] \in {Diamond, Chain}}

InitAcyclic == Init /\ scen \in AcyclicGraphs

\* A step of a call of task t.
Step(t) ==
    \/ Find(t)
    \/ Collect(t)
    \/ Return(t)
    \/ TrackerPush(t)
    \/ GetLockFor(t)
    \/ Lock(t)
    \/ CheckStore(t)
    \/ ResolveDependencies(t)
    \/ Provide(t)
    \/ LoadDecorators(t)
    \/ DecoratorDependencies(t)
    \/ StorePut(t)
    \/ Unlock(t)
    \/ ReleaseLock(t)

NextAcyclic ==
    \/ \E t \in Tasks, req \in Scenarios[scen].reqs : Start(t, req)
    \/ \E t \in Tasks : Step(t)

SpecAcyclic ==
    InitAcyclic /\ [][NextAcyclic]_vars /\ WF_vars(\E t \in Tasks : Step(t))

\* The scenarios where one task registers with conditions, and the steps
\* they take.
WithConditions == {i \in Sequential : Scenarios[i].conditional # {}}

InitConditions == Init /\ scen \in WithConditions

NextConditions ==
    \/ \E p \in pending : Register(p)
    \/ \E dec \in Decorators : RegisterGetLockFor(dec)
    \/ \E dec \in Decorators : RegisterLock(dec)
    \/ \E dec \in Decorators : RegisterLoadOrStore(dec)
    \/ \E dec \in Decorators : RegisterAdd(dec)
    \/ \E dec \in Decorators : RegisterUnlock(dec)
    \/ \E t \in Tasks, c \in Scenarios[scen].conditional : RegisterStart(t, c)
    \/ \E t \in Tasks : RegisterConditions(t)
    \/ \E t \in Tasks : RegisterAdmitted(t)
    \/ \E t \in Tasks : RegisterDecorated(t)
    \/ \E t \in Tasks : RegisterReturn(t)
    \/ \E t \in Tasks, req \in Scenarios[scen].reqs : Start(t, req)
    \/ \E t \in Tasks : Find(t)
    \/ \E t \in Tasks : Collect(t)
    \/ \E t \in Tasks : Return(t)
    \/ \E t \in Tasks : TrackerPush(t)
    \/ \E t \in Tasks : GetLockFor(t)
    \/ \E t \in Tasks : Lock(t)
    \/ \E t \in Tasks : CheckStore(t)
    \/ \E t \in Tasks : ResolveDependencies(t)
    \/ \E t \in Tasks : Provide(t)
    \/ \E t \in Tasks : LoadDecorators(t)
    \/ \E t \in Tasks : DecoratorDependencies(t)
    \/ \E t \in Tasks : Decorate(t)
    \/ \E t \in Tasks : StorePut(t)
    \/ \E t \in Tasks : Unlock(t)
    \/ \E t \in Tasks : ReleaseLock(t)

SpecConditions == InitConditions /\ [][NextConditions]_vars

\* The slice on its own: any priorities, either order, every task adding.
InitSlice ==
    /\ InitResolver
    /\ scen = 1
    /\ comparator \in {"compareByPriority", "ReverseComparator"}
    /\ items \in [1..MaxItems -> ItemPriorities]
    /\ NewSortedCOWSlice
    /\ NoTrackers

NextSlice ==
    \/ \E t \in Tasks, i \in 1..MaxItems : AddLock(t, i)
    \/ \E t \in Tasks : AddSearch(t)
    \/ \E t \in Tasks : AddCopy(t)
    \/ \E t \in Tasks : AddStore(t)
    \/ \E t \in Tasks : AddUnlock(t)
    \/ All

SpecSlice == InitSlice /\ [][NextSlice]_vars

(***************************************************************************)
(* The Tracker as Go lays it out: visited is a set of its own, stack is a  *)
(* slice, that is a backing array (an index into arrays), a length and the *)
(* capacity of the array.  Two slices over one array see each other's      *)
(* writes.  from is the tracker NewTrackerFrom was given (0 for            *)
(* NewTracker); it is history, the code does not keep it.                  *)
(***************************************************************************)
TrackedNames == {Name("a", StringType), Name("b", StringType), Name("c", StringType)}

TrackerOf(visited, arr, len, from) ==
    [visited |-> visited, arr |-> arr, len |-> len, from |-> from]

\* len(tracker.stack) elements of the backing array: what the tracker sees.
StackOf(as, tracker) == [k \in 1..tracker.len |-> as[tracker.arr][k]]

\* The capacity append gives the array it allocates when the old one of
\* capacity cap is full.
growslice(cap) == IF cap = 0 THEN 1 ELSE 2 * cap

\* NewTracker(): an empty set and make([]Name, 0).
InitTracker ==
    /\ arrays = << <<>> >>
    /\ trackers = <<TrackerOf({}, 1, 0, 0)>>
    /\ ops = 0

\* append(tracker.stack, n): in place when the array has room after
\* len(tracker.stack), into a new array otherwise.
append(as, tracker, n) ==
    IF tracker.len < Len(as[tracker.arr])
    THEN [arrays |-> [as EXCEPT ![tracker.arr][tracker.len + 1] = n], arr |-> tracker.arr]
    ELSE [arrays |-> Append(as, [k \in 1..growslice(Len(as[tracker.arr])) |->
                                    IF k <= tracker.len THEN as[tracker.arr][k]
                                    ELSE IF k = tracker.len + 1 THEN n ELSE NoName]),
          arr |-> Len(as) + 1]

\* tracker.Push(n): an error and no change when n is visited, else n is
\* added to visited and appended to the stack.
PushOn(i, n) ==
    /\ ops < MaxOps
    /\ i \in DOMAIN trackers
    /\ ops' = ops + 1
    /\ IF n \in trackers[i].visited
       THEN UNCHANGED <<arrays, trackers>>
       ELSE LET appended == append(arrays, trackers[i], n)
            IN /\ arrays' = appended.arrays
               /\ trackers' = [trackers EXCEPT ![i].visited = @ \cup {n},
                                               ![i].arr = appended.arr,
                                               ![i].len = @ + 1]
    /\ UNCHANGED <<resolverVars, sliceVars>>

\* tracker.Pop(): the last element leaves the stack and visited.  Pop of an
\* empty stack panics; the machine does not take that step.
PopOn(i) ==
    /\ ops < MaxOps
    /\ i \in DOMAIN trackers
    /\ trackers[i].len > 0
    /\ ops' = ops + 1
    /\ LET n == arrays[trackers[i].arr][trackers[i].len]
       IN trackers' = [trackers EXCEPT ![i].visited = @ \ {n}, ![i].len = @ - 1]
    /\ UNCHANGED <<resolverVars, sliceVars, arrays>>

\* NewTrackerFrom(other): visited is copied, stack is the same slice.
Branch(i) ==
    /\ ops < MaxOps
    /\ i \in DOMAIN trackers
    /\ Len(trackers) < MaxTrackers
    /\ ops' = ops + 1
    /\ trackers' = Append(trackers, TrackerOf(trackers[i].visited, trackers[i].arr,
                                              trackers[i].len, i))
    /\ UNCHANGED <<resolverVars, sliceVars, arrays>>

InitTrackers ==
    /\ InitResolver
    /\ scen = 1
    /\ NoItems
    /\ InitTracker

NextTrackers ==
    \/ \E i \in 1..MaxTrackers, n \in TrackedNames : PushOn(i, n)
    \/ \E i \in 1..MaxTrackers : PopOn(i)
    \/ \E i \in 1..MaxTrackers : Branch(i)

SpecTrackers == InitTrackers /\ [][NextTrackers]_vars

(***************************************************************************)
(* Properties.                                                             *)
(***************************************************************************)
Succeeded(h) == h.ret.err = "none" /\ h.ret.found

\* The calls of all tasks that have returned.
Returned == UNION {{hist[t][i] : i \in 1..Len(hist[t])} : t \in Tasks}

\* C1: over the lifetime of the resolver, Provide is invoked at most once
\* for a Name; in particular it does not hand out a component for the Name
\* twice.
C1_ProvideAtMostOncePerName ==
    \A c, d \in invoked : (c.name = d.name /\ c.ok /\ d.ok) => c = d

\* C2: two resolutions of a Name by two tasks, both started before the
\* component was stored, return the same reference.
C2_ConcurrentResolutionsSameReference ==
    \A t, u \in Tasks : \A i \in DOMAIN hist[t], j \in DOMAIN hist[u] :
        (/\ t # u
         /\ hist[t][i].early /\ hist[u][j].early
         /\ hist[t][i].req.typ = hist[u][j].req.typ
         /\ Succeeded(hist[t][i]) /\ Succeeded(hist[u][j]))
        => hist[t][i].ret.val = hist[u][j].ret.val

\* C3: the factory of a provider is invoked at most once, whatever the
\* sequence of resolutions by declared type, by interface and by name
\* (stated for the factories that never fail).
C3_FactoryAtMostOnce ==
    \A c, d \in invoked :
        (c.p = d.p /\ \A e \in invoked : e.p = c.p => e.ok) => c = d

\* C4: once the store holds a value for a Name, no step replaces it by
\* another value.
C4_StoreNeverOverwritten ==
    [][\A n \in DOMAIN store : n \in DOMAIN store' /\ store'[n] = store[n]]_vars

\* C5: after a Resolve<T> of a task has succeeded, its later Resolve<T> and
\* TryResolve<T> calls return the same reference.
C5_LaterResolveSameReference ==
    \A t \in Tasks : \A i, j \in DOMAIN hist[t] :
        (/\ i < j
         /\ hist[t][i].req = Resolve(hist[t][i].req.typ)
         /\ hist[t][j].req \in {Resolve(hist[t][i].req.typ), TryResolve(hist[t][i].req.typ)}
         /\ Succeeded(hist[t][i]))
        => (Succeeded(hist[t][j]) /\ hist[t][j].ret.val = hist[t][i].ret.val)

\* The scenarios whose providers form a dependency cycle, and the names on
\* the cycle.
Cyclic == Scenarios[scen] \in {Cycle2, Cycle3}

CycleNodes == {Scenarios[scen].pre[i].name : i \in 1..Len(Scenarios[scen].pre)}

Elems(sq) == {sq[i] : i \in 1..Len(sq)}

\* A call that has returned from a resolution on a cycle got a cycle error
\* whose chain holds every node of the cycle.
CycleReported ==
    Cyclic => \A h \in Returned : h.ret.err = "cycle" /\ CycleNodes \subseteq Elems(h.ret.chain)

\* The tasks inside a call, and those of them that wait for a mutex held by
\* a task that itself waits for a mutex: none of them will ever return.
Running == {t \in Tasks : stack[t] # <<>>}

Waiting == {t \in Running : Top(t).kind = "provide" /\ Top(t).pc = "lock"
                              /\ holder[Top(t).mutex] # 0}

Blocked == Waiting # {} /\ \A t \in Waiting : holder[Top(t).mutex] \in Waiting

\* C6: a resolution of a node of a dependency cycle returns a cycle error
\* whose chain holds every node of the cycle, and never a value; it
\* terminates, so the tasks never end up waiting for each other's lock.
C6_CycleResolutionReturnsError == CycleReported /\ (Cyclic => ~Blocked)

\* The scenarios whose providers form a diamond A -> B, C; B -> D; C -> D,
\* and the provider of the shared dependency D.
Acyclic == Scenarios[scen] \in {Diamond, DiamondByInterface}

SharedProvider == Scenarios[scen].pre[4]

NoSpuriousCycle == Acyclic => \A h \in Returned : h.ret.err # "cycle"

SharedInvokedOnce ==
    Acyclic => \A c, d \in invoked : (c.p = SharedProvider.id /\ d.p = SharedProvider.id) => c = d

\* C7: in an acyclic dependency graph, diamonds included, no resolution
\* returns a cycle error and the factory of the shared dependency is invoked
\* once.
C7_DiamondSharedDependencyOnce == NoSpuriousCycle /\ SharedInvokedOnce

\* The resolve calls in progress, and for each the results of its query
\* that carry a provider: the component of the name is constructed with
\* that provider.
ResolveCalls ==
    UNION {{stack[t][i] : i \in {k \in 1..Len(stack[t]) : stack[t][k].kind = "resolve"}} : t \in Tasks}

Chosen(f) == {r \in Elems(f.results) : ~r.stored}

\* The providers registered when the query ran that can provide the name.
Claiming(f, r) == {q \in Elems(f.snap) : CanProvide(q, r.name)}

Constructed(r) == \E c \in invoked : c.p = r.provider.id /\ c.name = r.name /\ c.ok

\* C8: among the providers registered for a Name, the one that Resolve,
\* ResolveNamed and ResolveAll construct the component with has the highest
\* priority.
C8_HighestPriorityProvides ==
    \A f \in ResolveCalls : \A r \in Chosen(f) :
        \A q \in Claiming(f, r) : q.prio <= r.provider.prio

\* A component has been constructed for a name that providers of three
\* different priorities claim.
C8_Witness ==
    \E f \in ResolveCalls : \E r \in Chosen(f) :
        /\ Constructed(r)
        /\ Cardinality({q.prio : q \in Claiming(f, r)}) = 3

\* The position of a provider in the order of registration (the resolver's
\* own provider is registered by New, before all others).
Pos(id) ==
    IF \E i \in 1..Len(registered) : registered[i] = id
    THEN CHOOSE i \in 1..Len(registered) : registered[i] = id
    ELSE 0

Unique(f) == f.req.c = "unique"

\* C9: of two providers registered for the same Name with equal priority,
\* Resolve and ResolveNamed use the one registered first.
C9_FirstRegisteredOfEqualPriority ==
    \A f \in ResolveCalls : Unique(f) => \A r \in Chosen(f) :
        \A q \in Claiming(f, r) :
            q.prio = r.provider.prio => Pos(r.provider.id) <= Pos(q.id)

\* C9, as the code has it: of two providers registered for the same Name
\* with equal priority, Resolve and ResolveNamed use the one registered
\* last.
C9_LastRegisteredOfEqualPriority ==
    \A f \in ResolveCalls : Unique(f) => \A r \in Chosen(f) :
        \A q \in Claiming(f, r) :
            q.prio = r.provider.prio => Pos(r.provider.id) >= Pos(q.id)

\* A component has been constructed for Resolve or ResolveNamed with the
\* later of two registered providers of equal priority.
C9_Witness ==
    \E f \in ResolveCalls : Unique(f) /\ \E r \in Chosen(f) :
        /\ Constructed(r)
        /\ \E q \in Claiming(f, r) :
              q.prio = r.provider.prio /\ Pos(q.id) < Pos(r.provider.id)

\* The Names the providers registered when the query of call h ran list as
\* providable with a type compatible with the queried type.
Providable(h) ==
    {h.snap[j].name : j \in {k \in 1..Len(h.snap) : matchType(h.req.typ, h.snap[k].name.typ)}}

\* The Name under which the provider that built a component is registered.
NameOf(h, comp) ==
    (CHOOSE q \in Elems(h.snap) : q.id = comp.p).name

IsResolveAll(h) == h.req.c = "slice" /\ h.ret.err = "none"

\* C10: ResolveAll returns exactly one element per distinct Name that a
\* registered provider lists as providable with a compatible type, however
\* many providers claim the Name.
C10_ResolveAllOnePerName ==
    \A h \in Returned : IsResolveAll(h) =>
        /\ Len(h.ret.vals) = Cardinality(Providable(h))
        /\ {NameOf(h, h.ret.vals[i]) : i \in 1..Len(h.ret.vals)} = Providable(h)

\* A ResolveAll has returned two or more elements while two registered
\* providers claimed one of the Names.
C10_Witness ==
    \E h \in Returned :
        /\ IsResolveAll(h)
        /\ Len(h.ret.vals) >= 2
        /\ \E i, j \in 1..Len(h.snap) :
              /\ i # j
              /\ h.snap[i].name = h.snap[j].name
              /\ matchType(h.req.typ, h.snap[i].name.typ)

\* The calls of provideUsing in progress.
ProvideCalls ==
    UNION {{stack[t][i] : i \in {k \in 1..Len(stack[t]) : stack[t][k].kind = "provide"}} : t \in Tasks}

Ids(decs) == [i \in 1..Len(decs) |-> decs[i].id]

Ascending(decs) == \A i, j \in 1..Len(decs) : i < j => decs[i].prio <= decs[j].prio

\* The component about to be stored went through the decorators loaded for
\* the name it is constructed under, lowest priority first, each applied to
\* the output of the one before.
ChainInOrder ==
    \A f \in ProvideCalls :
        f.pc = "put" => f.comp.d = Ids(f.decs) /\ Ascending(f.decs)

\* The Name a provider is registered under, and the decorators registered
\* for it before the first resolution.
RegisteredName(id) == (CHOOSE q \in Elems(providers) : q.id = id).name

FirstDecorators(n) ==
    LET lists == RegisterDecorators(<<>>, Scenarios[scen].predecs, 1)
    IN IF n \in DOMAIN lists THEN lists[n] ELSE <<>>

RegisterCalls == {h \in Returned : h.req = RegisterReq}

\* The condition holds: its referent resolved to a string and the
\* comparison with the value of the condition is true.
Holds(cond, r) ==
    /\ r.err = "none" /\ r.found
    /\ \/ cond.op = "equals" /\ StringOf(r.val) = cond.value
       \/ cond.op = "notEquals" /\ StringOf(r.val) # cond.value

\* Every condition of the registration was evaluated and holds.
AllHold(reg, out) ==
    /\ Len(out) = Len(reg.conds)
    /\ \A i \in 1..Len(out) : Holds(reg.conds[i], out[i])

\* The provider is in the given provider list, the decorator in the given lists.
Listed(reg, provs, decs) ==
    IF reg.kind = "provider" THEN reg.item \in Elems(provs)
    ELSE reg.item.name \in DOMAIN decs /\ reg.item \in Elems(decs[reg.item.name])

RegisterFrames ==
    UNION {{stack[t][i] : i \in {k \in 1..Len(stack[t]) : stack[t][k].kind = "register"}}
           : t \in Tasks}

\* C12: a Register call with conditions returns nil, and has added its
\* provider or decorator exactly when every condition held (the referent
\* resolved to a string and the comparison was true); a provider or
\* decorator registered with conditions is in the lists only when a call
\* found every one of its conditions to hold.
C12_RegisteredIffConditionsHold ==
    /\ \A h \in RegisterCalls :
          /\ h.ret.err = "none"
          /\ Listed(h.reg, h.snap, h.decs) <=> AllHold(h.reg, h.out)
    /\ \A c \in Scenarios[scen].conditional :
          Listed(c, providers, decorators) =>
              \/ \E h \in RegisterCalls : h.reg = c /\ AllHold(c, h.out)
              \/ \E f \in RegisterFrames : f.reg = c /\ AllHold(c, f.out)

\* Three calls have returned: one whose conditions all held, one whose
\* comparison was false, one whose referent was missing.
C12_Witness ==
    /\ \E h \in RegisterCalls : AllHold(h.reg, h.out) /\ Listed(h.reg, h.snap, h.decs)
    /\ \E h \in RegisterCalls :
          /\ h.out # <<>> /\ h.out[Len(h.out)].found /\ ~AllHold(h.reg, h.out)
          /\ ~Listed(h.reg, providers, decorators)
    /\ \E h \in RegisterCalls :
          /\ h.out # <<>> /\ ~h.out[Len(h.out)].found /\ h.out[Len(h.out)].err = "none"
          /\ Len(h.reg.conds) = 2
          /\ ~Listed(h.reg, providers, decorators)

\* The calls of TryResolve and TryResolveNamed that have returned.
TryCalls == {h \in Returned : h.req.v = "optional" /\ h.req.c = "unique"}

\* The Names the providers registered when the call looked for them could
\* give to the request.
Candidates(h) ==
    {q.name : q \in {p \in Elems(h.snap) :
        /\ matchType(h.req.typ, p.name.typ)
        /\ h.req.q = "name" => p.name.name = h.req.name}}

\* C13: TryResolve and TryResolveNamed return (zero, false, nil) when no
\* provider matches; in every other case they return either the component
\* with found = true and no error, or the zero value with found = false and
\* an error; more than one candidate is an error.
C13_TryResolveNotFoundOrError ==
    \A h \in TryCalls :
        /\ Candidates(h) = {} => h.ret = NoRet
        /\ Candidates(h) # {} =>
              \/ h.ret.found /\ h.ret.err = "none" /\ h.ret.val # Zero
              \/ ~h.ret.found /\ h.ret.err # "none" /\ h.ret.val = Zero
        /\ Cardinality(Candidates(h)) > 1 => h.ret.err = "ambiguous"

\* Four calls have returned: nothing found, two candidates, a factory that
\* failed, a dependency that nothing provides.
C13_Witness ==
    /\ \E h \in TryCalls : Candidates(h) = {} /\ h.ret = NoRet
    /\ \E h \in TryCalls : h.ret.err = "ambiguous" /\ ~h.ret.found
    /\ \E h \in TryCalls : h.ret.err = "factory" /\ ~h.ret.found
    /\ \E h \in TryCalls : h.ret.err = "noprovider" /\ ~h.ret.found /\ Candidates(h) # {}

IsResolve(req) == req.q = "type" /\ req.v = "mandatory" /\ req.c = "unique"

\* The calls of Resolve that have looked for their providers and have not
\* returned yet.
ResolveCallsRunning ==
    {t \in Tasks : /\ stack[t] # <<>>
                   /\ stack[t][1].kind = "resolve" /\ IsResolve(stack[t][1].req)
                   /\ stack[t][1].pc # "find"}

\* C14: a call of Resolve that finds no candidate Name, or more than one,
\* returns an error and never gets to construct anything (it calls no
\* provider); a call that succeeds has found exactly one candidate Name.
C14_ResolveNeedsExactlyOne ==
    /\ \A h \in {g \in Returned : IsResolve(g.req)} :
          /\ Candidates(h) = {} => h.ret.err = "noprovider" /\ ~h.ret.found
          /\ Cardinality(Candidates(h)) > 1 => h.ret.err = "ambiguous" /\ ~h.ret.found
          /\ Succeeded(h) => Cardinality(Candidates(h)) = 1
    /\ \A t \in ResolveCallsRunning :
          Cardinality(Candidates(stack[t][1])) # 1 => Len(stack[t]) = 1

\* Three calls have returned: no candidate, several candidates, and one
\* candidate, constructed.
C14_Witness ==
    /\ \E h \in Returned : IsResolve(h.req) /\ Candidates(h) = {} /\ h.ret.err = "noprovider"
    /\ \E h \in Returned :
          IsResolve(h.req) /\ Cardinality(Candidates(h)) > 1 /\ h.ret.err = "ambiguous"
    /\ \E h \in Returned : IsResolve(h.req) /\ Succeeded(h) /\ h.req.typ = ControllerType
    /\ invoked # {}

CloseCalls == {h \in Returned : h.req = CloseReq}

\* The calls of Close that are running, and the frames of one of them: the
\* call itself and the calls of Close made from inside it.
Closing1 == {t \in Tasks : stack[t] # <<>> /\ stack[t][1].kind = "close"}

\* The components of a store that expose Close.
Closers(st) ==
    {c \in {st[n] : n \in DOMAIN st} : matchType(CloseableType, TypeOf(c))}

\* The number of times the entries say Close was invoked on the component.
Times(out, c) == Cardinality({i \in 1..Len(out) : out[i].called /\ out[i].comp = c})

\* The same, over every Close running inside the call of the task.
TimesRunning(t, c) ==
    Cardinality({ki \in UNION {{<<k, i>> : i \in 1..Len(stack[t][k].out)} : k \in 1..Len(stack[t])} :
                   /\ stack[t][ki[1]].out[ki[2]].called
                   /\ stack[t][ki[1]].out[ki[2]].comp = c})

ResolverStored == \E n \in DOMAIN store : store[n].p = ResolverProvider.id

\* C15: a call of Resolver.Close that has returned has invoked Close exactly
\* once on every stored component that exposes Close and on nothing else,
\* whether or not some Close failed, and has returned nil exactly when no
\* Close failed; a call that is running has invoked Close on no component
\* more than once.
C15_CloseOncePerStoredCloser ==
    /\ \A h \in CloseCalls :
          /\ \A c \in Closers(h.store) : Times(h.out, c) = 1
          /\ \A i \in 1..Len(h.out) : h.out[i].called => h.out[i].comp \in Closers(h.store)
          /\ h.ret.err = "none" <=> \A i \in 1..Len(h.out) : ~h.out[i].failed
    /\ \A t \in Closing1 : \A c \in Closers(store) : TimesRunning(t, c) <= 1

\* The same holds as long as the resolver is not one of the stored components.
CloseOnceUnlessResolverStored == ResolverStored \/ C15_CloseOncePerStoredCloser

\* A Close that closed two components, one of which failed, has returned.
CloseJoinedErrors ==
    \E h \in CloseCalls :
        /\ h.ret.err # "none"
        /\ \E i, j \in 1..Len(h.out) :
              i < j /\ h.out[i].called /\ h.out[i].failed /\ h.out[j].called /\ ~h.out[j].failed

\* C16: the close loop never calls Close on the resolver, so that no Close
\* runs inside a Close and every Close that has visited the entries of the
\* store returns.
C16_CloseSkipsResolver ==
    \A t \in Closing1 :
        /\ Len(stack[t]) = 1
        /\ \A i \in 1..Len(stack[t][1].out) :
              stack[t][1].out[i].called => stack[t][1].out[i].comp.p # ResolverProvider.id

\* The resolver, as the value its static provider returns.
TheResolver == FactoryValue(ResolverProvider, 1)

\* The factories that are about to be called with their dependencies.
FactoryCalls == {f \in ProvideCalls : f.pc = "provide"}

\* C17: resolving the name "godi.resolver" with the resolver type returns
\* the resolver itself, and a factory that takes the resolver as a parameter
\* is called with the resolver.
C17_ResolverResolvesToItself ==
    /\ \A h \in Returned :
          h.req = ResolveNamed("godi.resolver", ResolverType) =>
              Succeeded(h) /\ h.ret.val = TheResolver
    /\ \A f \in FactoryCalls : \A i \in 1..Len(f.prov.deps) :
          f.prov.deps[i].typ = ResolverType => f.out[i] = TheResolver

\* Another provider of the resolver type has been registered.
Reregistered ==
    \E i \in 1..Len(providers) :
        providers[i] # ResolverProvider /\ providers[i].name.typ = ResolverType

\* The same holds as long as no other provider of the resolver type is registered.
SelfUnlessReregistered == Reregistered \/ C17_ResolverResolvesToItself

\* The resolver was resolved by its name and given to a factory.
SelfResolved ==
    /\ ~Reregistered
    /\ \E h \in Returned :
          h.req = ResolveNamed("godi.resolver", ResolverType) /\ h.ret.val = TheResolver
    /\ \E c \in invoked : c.p = 1 /\ c.ok /\ Scenarios[scen] = Self

InitializeCalls == {h \in Returned : h.req = InitializeReq}

\* What the calls of Initialize have run: those that returned and those
\* that are running.
Runs ==
    {h.out : h \in InitializeCalls} \cup
    {stack[t][1].out : t \in {u \in Tasks : stack[u] # <<>> /\ stack[u][1].kind = "initialize"}}

\* The providers registered for a type of initializer.
InitializersOf(typ) == {q.id : q \in {p \in Elems(providers) : p.name.typ = typ}}

\* The initializers a call has run, of one flavour.
RanOf(out, unsafe) == {out[i].comp.p : i \in {k \in 1..Len(out) : out[k].unsafe = unsafe}}

\* No initializer is run twice.
OncePerCall(out) == \A i, j \in 1..Len(out) : i # j => out[i].comp # out[j].comp

\* No side-effect-only initializer runs after a fallible one, and a fallible
\* one runs only when every side-effect-only one has run.
SideEffectsFirst(out) ==
    /\ \A i, j \in 1..Len(out) : i < j => ~(out[i].unsafe /\ ~out[j].unsafe)
    /\ \A i \in 1..Len(out) : out[i].unsafe = (TypeOf(out[i].comp) = UnsafeInitializerType)
    /\ RanOf(out, TRUE) # {} => RanOf(out, FALSE) = InitializersOf(InitializerType)

\* Nothing runs after an initializer that returned an error.
StopsAtFirstError(out) == \A i \in 1..Len(out) : out[i].failed => i = Len(out)

\* C18: a call of Initialize runs every side-effect-only initializer before
\* any fallible one, runs no initializer twice, and runs nothing after the
\* first fallible initializer that returns an error, which is the error it
\* returns; it returns nil only when every initializer has run and none
\* has failed.
C18_InitializeOrderAndFirstError ==
    /\ \A out \in Runs : OncePerCall(out) /\ SideEffectsFirst(out) /\ StopsAtFirstError(out)
    /\ \A h \in InitializeCalls :
          /\ (\E i \in 1..Len(h.out) : h.out[i].failed) => h.ret.err = "initializer"
          /\ h.ret.err = "none" =>
                /\ \A i \in 1..Len(h.out) : ~h.out[i].failed
                /\ RanOf(h.out, FALSE) = InitializersOf(InitializerType)
                /\ RanOf(h.out, TRUE) = InitializersOf(UnsafeInitializerType)

\* A call has returned the error of the first of two fallible initializers,
\* after running both side-effect-only initializers and not the second
\* fallible one.
C18_Witness ==
    \E h \in InitializeCalls :
        /\ h.ret.err = "initializer"
        /\ Len(h.out) = 3 /\ h.out[3].failed /\ RanOf(h.out, FALSE) = {1, 2}
        /\ Cardinality({n \in DOMAIN h.store : n.typ = UnsafeInitializerType}) = 2

\* C19: a factory or decorator body that panics makes Provide or Decorate
\* return an error and the invalid value; provideUsing then goes to its
\* deferred unlock and release with nothing stored for the Name, and the
\* resolution returns that error with, at that time, no component stored
\* and no lock kept for the Name.  No stored component comes from a body
\* that panicked.
C19_PanicBecomesError ==
    /\ \A f \in ProvideCalls :
          f.ret.err = "panic" =>
              /\ f.pc \in {"unlock", "release"}
              /\ f.ret.val = Zero /\ ~f.ret.found
              /\ f.name \notin DOMAIN store
    /\ \A h \in Returned :
          h.ret.err = "panic" =>
              /\ h.ret.val = Zero /\ ~h.ret.found
              /\ \A n \in Elems(h.ret.chain) : n \notin DOMAIN h.store /\ n \notin DOMAIN h.locks
    /\ \A n \in DOMAIN store :
          /\ IsValid(store[n])
          /\ \E c \in invoked : c.p = store[n].p /\ c.ok /\ ~c.panic
    /\ \A c \in invoked : c.panic =>
          \/ \E t \in Tasks : \E i \in 1..Len(stack[t]) : stack[t][i].ret.err = "panic"
          \/ \E h \in Returned : h.ret.err = "panic"

\* Two resolutions have returned the error of a panic: the first from the
\* factory, the second, after the factory returned its component, from the
\* decorator.
C19_Witness ==
    /\ Cardinality({h \in Returned : h.ret.err = "panic" /\ h.ret.chain # <<>>}) >= 1
    /\ \E t \in Tasks : Len(hist[t]) = 2 /\ hist[t][1].ret.err = "panic"
                                         /\ hist[t][2].ret.err = "panic"
    /\ \E c \in invoked : c.panic
    /\ \E c \in invoked : c.ok
    /\ store = <<>>

\* The collections of a map that are over.
MapCollected == {f \in ResolveCalls : f.req.c = "map" /\ f.pc = "return"}

\* Two results of the query have the same name string.
SharedNameString(f) ==
    \E i, j \in 1..Len(f.results) : i # j /\ f.results[i].name.name = f.results[j].name.name

\* The map has one entry for each result.
OneEntryPerResult(f) ==
    /\ Len(f.ret.vals) = Len(f.results)
    /\ \A i \in 1..Len(f.results) :
          \E j \in 1..Len(f.ret.vals) :
              f.ret.vals[j] = [key |-> f.results[i].name.name, val |-> f.out[i]]

\* C20: collecting the results of a query into a map keyed by name string
\* fails with an error when two of the results have the same name string,
\* and otherwise gives a map with one entry for each result.
C20_MapFailsOnSharedNameString ==
    \A f \in MapCollected :
        IF SharedNameString(f) THEN f.ret.err # "none"
        ELSE f.ret.err = "none" => OneEntryPerResult(f)

\* The same holds as long as no two results have the same name string.
MapCompleteUnlessSharedNameString ==
    \A f \in MapCollected :
        (~SharedNameString(f) /\ f.ret.err = "none") => OneEntryPerResult(f)

\* A map of two closers with different name strings has been collected.
MapOfDistinctNames ==
    \E f \in MapCollected : ~SharedNameString(f) /\ Len(f.ret.vals) = 2 /\ f.ret.err = "none"

\* What All() returns now.
Current == Elements(heap, data)

\* No element is Greater than an element after it.
Sorted(elems) ==
    \A i, j \in 1..Len(elems) :
        i < j => Comparator(comparator = "ReverseComparator", elems[i], elems[j]) # Greater

\* No Add is running.
Quiescent == \A t \in Tasks : adders[t].pc = "idle"

\* The elements are the items of the calls of Add that have returned, each
\* of them once.
ExactlyAdded(elems) ==
    /\ Len(elems) = Len(added)
    /\ \A k \in 1..Len(added) :
          Cardinality({i \in 1..Len(elems) : elems[i] = Item(added[k].item)}) = 1

\* C21: when the calls of Add made so far, by one task or by several at the
\* same time, have all returned, All() holds exactly the added items, none
\* lost and none twice, ordered by the comparator; what All() returns is
\* ordered at any time, Add running or not, as the slice the pointer holds,
\* without a sort.
C21_AllHoldsAddedItemsSorted ==
    /\ Quiescent => ExactlyAdded(Current)
    /\ Sorted(Current)
    /\ Sorted(snapshot.elems)

\* Every item has been added, by more than one task, and the order of the
\* slice is not the order of the calls.
C21_Witness ==
    /\ Quiescent
    /\ Len(added) = MaxItems
    /\ \E k, l \in 1..Len(added) : added[k].by # added[l].by
    /\ \E k \in 1..Len(added) : Current[k] # Item(added[k].item)
    /\ \E i, j \in 1..Len(Current) : i # j /\ Current[i].prio = Current[j].prio

\* C22: the slice a reader got from All() keeps its length and, at every
\* index, its element, whatever Add does afterwards or at the same time.
C22_SnapshotNeverModified ==
    snapshot # NoSnapshot => Elements(heap, snapshot.slice) = snapshot.elems

\* The reader holds a slice of one element while two more items have been
\* added since, one of them before that element, and a third Add is running.
C22_Witness ==
    /\ snapshot.slice.len = 1
    /\ Len(added) >= 2
    /\ \E i \in 2..Len(Current) : Current[i] = snapshot.elems[1]
    /\ Elements(heap, snapshot.slice) = snapshot.elems

\* The providers the scenario registers, and the one of a given id.
Registrables ==
    Elems(Scenarios[scen].pre) \cup Scenarios[scen].late \cup
    {c.item : c \in {d \in Scenarios[scen].conditional : d.kind = "provider"}}

ProviderOf(id) == CHOOSE p \in Registrables : p.id = id

\* The provider list as it was when the first k registrations had returned.
ListAfter(k) == RegisterAll(New, [i \in 1..k |-> ProviderOf(registered[i])], 1)

\* The provider lists the resolutions have read: those in progress, at any
\* depth, and those that have returned.
Snapshots ==
    {f.snap : f \in {g \in ResolveCalls : g.pc # "find"}} \cup
    {h.snap : h \in {g \in Returned : g.req.q \in {"type", "name"}}}

\* The calls of TryResolveNamed that have returned or have read the list.
NamedTryCalls ==
    {h \in TryCalls : h.req.q = "name"} \cup
    {f \in ResolveCalls : f.req.q = "name" /\ f.req.v = "optional" /\ f.pc # "find"}

\* The providers of the list a call read that can provide the name it asks for.
Able(h) == {p \in Elems(h.snap) : CanProvide(p, Name(h.req.name, h.req.typ))}

\* The providers whose registration had returned when the call started.
RegisteredAtStart(h) == {ProviderOf(registered[k]) : k \in 1..h.since}

\* C23: a resolution that runs while providers are registered reads a
\* provider list that is the list as it was after some number of
\* registrations, never a part of it; a TryResolveNamed that has returned
\* found nothing, without error, when that list had no provider for the
\* name, and got the component, without error, when it had one (a static
\* provider, whose factory cannot fail); and the list it read holds every
\* provider registered before it started, so that it found the name when one
\* of them provides it.
C23_RegisterRacesWithResolve ==
    /\ \A snap \in Snapshots : \E k \in 0..Len(registered) : snap = ListAfter(k)
    /\ \A h \in NamedTryCalls : RegisteredAtStart(h) \subseteq Elems(h.snap)
    /\ \A h \in {g \in TryCalls : g.req.q = "name"} :
          /\ Able(h) = {} => h.ret = NoRet
          /\ (Able(h) # {} /\ \A p \in Able(h) : p.static) =>
                Succeeded(h) /\ h.ret.val.p \in {p.id : p \in Able(h)}
          /\ RegisteredAtStart(h) \cap Able(h) # {} => h.ret # NoRet

\* Three calls of TryResolveNamed have returned: one that found nothing, one
\* that found the provider although it was registered after the call
\* started, and one that started after the registration.
C23_Witness ==
    /\ Scenarios[scen] = Registering
    /\ \E h \in TryCalls : h.ret = NoRet /\ Len(h.snap) = 2
    /\ \E h \in TryCalls : Succeeded(h) /\ RegisteredAtStart(h) \cap Able(h) = {}
    /\ \E h \in TryCalls : Succeeded(h) /\ RegisteredAtStart(h) \cap Able(h) # {}

\* The calls of provideUsing whose construction has failed: Provide, the
\* resolution of a dependency or a decorator returned an error.
FailedConstructions ==
    UNION {{<<t, i>> : i \in {k \in 1..Len(stack[t]) :
                /\ stack[t][k].kind = "provide"
                /\ stack[t][k].ret.err # "none"}} : t \in Tasks}

\* A failed construction is on its way out (the deferred unlock and
\* release), with no component to return; once it has unlocked its mutex it
\* does not hold it.
FailureUnlocks ==
    \A c \in FailedConstructions :
        LET f == stack[c[1]][c[2]]
        IN /\ f.pc \in {"unlock", "release"}
           /\ f.ret.val = Zero /\ ~f.ret.found
           /\ f.pc = "release" => holder[f.mutex] # c[1]

\* The task is in a call of provideUsing whose construction has failed.
Failing(stk) ==
    stk # <<>> /\ stk[Len(stk)].kind = "provide" /\ stk[Len(stk)].ret.err # "none"

\* The step in which a construction fails and the steps the failed
\* construction takes afterwards store nothing; the last one leaves no entry
\* for the Name in the lock manager and hands the error to the resolution
\* that asked for the Name.
FailureDiscardsLock ==
    \A t \in Tasks :
        (stack'[t] # stack[t] /\ (Failing(stack[t]) \/ Failing(stack'[t])))
        => /\ store' = store
           /\ (Failing(stack[t]) /\ Top(t).pc = "release") =>
                 /\ Top(t).name \notin DOMAIN locks'
                 /\ stack'[t][Len(stack'[t])].ret.err = Top(t).ret.err

\* Every resolution that returned the error of a factory did invoke the
\* factory: the error of an earlier call is not handed out again.
FailureNotHandedOutAgain ==
    Cardinality({c \in invoked : ~c.ok /\ ~c.panic}) >=
    Cardinality(UNION {{<<t, i>> : i \in {k \in 1..Len(hist[t]) : hist[t][k].ret.err = "factory"}}
                       : t \in Tasks})

CriticalSection == {"check", "deps", "provide", "load", "decdeps", "decorate", "put", "unlock"}

Inside(n) ==
    {t \in Tasks : \E i \in 1..Len(stack[t]) :
        /\ stack[t][i].kind = "provide"
        /\ stack[t][i].name = n
        /\ stack[t][i].pc \in CriticalSection}

\* The Names some call of provideUsing is constructing.
UnderConstruction == {f.name : f \in ProvideCalls}

\* C25: at every moment at most one task is between the lock and the unlock
\* of provideUsing for a given Name.
C25_OneTaskInCriticalSection ==
    \A n \in UnderConstruction : Cardinality(Inside(n)) <= 1

\* The task waits in lock.Lock() for a mutex that task u holds.
WaitsFor(t, u) ==
    /\ At(t, "provide", "lock")
    /\ holder[Top(t).mutex] = u

\* The Names of the cycle a task has locked and is constructing.
Constructing(t) ==
    {stack[t][i].name : i \in {k \in 1..Len(stack[t]) :
        stack[t][k].kind = "provide" /\ stack[t][k].pc \in CriticalSection}}

\* C26: two tasks that resolve two different nodes of one dependency cycle
\* at the same time both return; they never end up each waiting for the
\* mutex of the Name the other is constructing.
C26_CrossTaskCycleReturns ==
    \A t, u \in Tasks :
        (t # u /\ Cyclic /\ Constructing(t) # {} /\ Constructing(u) # {})
        => ~(WaitsFor(t, u) /\ WaitsFor(u, t))

\* Every task that is inside a call waits for a mutex.
AllWaiting == Running # {} /\ Running = Waiting

\* A task never waits for the mutex of a Name it is constructing itself, and
\* no two tasks wait for each other.
WaitsInDependencyOrder ==
    \A t, u \in Tasks :
        /\ At(t, "provide", "lock") => Top(t).name \notin Constructing(t)
        /\ ~(WaitsFor(t, u) /\ WaitsFor(u, t))

\* C27: in an acyclic dependency graph, whatever the interleaving of the
\* resolutions of several tasks, no state is reached where every running task
\* waits for a mutex, the mutexes are waited for in dependency order, and
\* every call that has started returns: again and again no call is running.
C27_AcyclicResolutionsReturn ==
    /\ []~AllWaiting
    /\ []WaitsInDependencyOrder
    /\ []<>(Running = {})

\* A task that is constructing a name, and has locked its mutex, waits for
\* the mutex of the dependency, which another task is constructing.
C27_Witness ==
    \E t, u \in Tasks :
        /\ t # u
        /\ WaitsFor(t, u)
        /\ Constructing(t) # {}
        /\ Constructing(u) # {} /\ Constructing(u) \cap Constructing(t) = {}

\* The task is in lock.Lock() for a mutex it holds itself: sync.Mutex is not
\* reentrant, and no other task will unlock it.
BlockedOnOwnMutex(t) ==
    /\ At(t, "provide", "lock")
    /\ holder[Top(t).mutex] = t

\* C28: a factory that resolves, through the resolver it was given, the Name
\* its own task is constructing gets an error back: the task never waits
\* for a mutex it holds itself.
C28_ReentrantFactoryGetsError ==
    \A t \in Tasks : ~BlockedOnOwnMutex(t)

\* The decorators registered, before the first resolution, with the name
\* string of a provider and a first parameter its component can be passed as.
CompatibleDecorators(p) ==
    {dec \in Elems(Scenarios[scen].predecs) :
        /\ ForName(dec).name = RegisteredName(p.id).name
        /\ matchType(ForName(dec).typ, RegisteredName(p.id).typ)}

\* C29: whichever query made provideUsing construct the component of a
\* provider, every decorator registered with the provider's name string and
\* a compatible first parameter has been applied to the component when it
\* is stored.
C29_CompatibleDecoratorsApplied ==
    \A f \in ProvideCalls :
        f.pc = "put" =>
            \A dec \in CompatibleDecorators(f.prov) : dec.id \in Elems(f.comp.d)

\* The decorators added to the list of their name when the component of
\* that name was in the store already.
AddedAfterStored == {dec \in Decorators : dec.id \in DOMAIN regs /\ regs[dec.id].at # Zero}

\* The components the resolver holds or has returned: stored, under
\* construction, or the result of a call.
Components ==
    {store[n] : n \in DOMAIN store} \cup {f.comp : f \in ProvideCalls}
    \cup {h.ret.val : h \in {r \in Returned : r.ret.found}}

\* C30: a decorator registered for a Name when the component of that Name was
\* stored is never applied: no component, stored, under construction or
\* returned, went through the decorator.
C30_LateDecoratorNeverApplied ==
    \A dec \in AddedAfterStored :
        \A comp \in Components : dec.id \notin Elems(comp.d)

QueriedName(c) == Name(c.req.name, c.req.typ)

\* The calls by name of a task that has just run the query, nothing being
\* collected yet, for a name the store holds.
NamedCallsInProgress ==
    {f \in {stack[t][1] : t \in {u \in Tasks : Len(stack[u]) = 1}} :
        /\ f.kind = "resolve" /\ f.req.q = "name" /\ f.req.c = "unique"
        /\ f.pc = "collect" /\ f.idx = 1
        /\ QueriedName(f) \in DOMAIN store}

\* The calls by name that started when the store held the name, and have
\* returned.
NamedCallsReturned ==
    {h \in Returned : h.req.q = "name" /\ h.req.c = "unique" /\ ~h.early}

\* C31: a ResolveNamed of a Name that is stored when the call starts is
\* answered from the store, whatever providers have been registered since:
\* its query has one result, the stored component, without a provider, and
\* the call returns the reference the store holds, which stays the same.
C31_StoredNameShadowsNewProviders ==
    /\ \A f \in NamedCallsInProgress :
          f.results = <<QueryResult(QueriedName(f), TRUE, store[QueriedName(f)], NoProvider)>>
    /\ \A h \in NamedCallsReturned :
          /\ QueriedName(h) \in DOMAIN store
          /\ h.ret = Found(store[QueriedName(h)])

\* A call by name has returned the stored component of a provider although
\* the list it read held a provider of the name with a higher priority.
C31_Witness ==
    \E h \in NamedCallsReturned :
        /\ h.ret.found
        /\ \E p, q \in Able(h) : q.id = h.ret.val.p /\ p.prio > q.prio

\* The task is inside a call of Register with conditions.
Registers(t) == stack[t] # <<>> /\ stack[t][1].kind = "register"

\* The name validateCondition resolves for the condition the call is at.
ConditionName(f) ==
    IF f.idx \in 1..Len(f.reg.conds)
    THEN {Name(f.reg.conds[f.idx].name, StringType)} ELSE {}

\* A step taken while a task evaluates the conditions of a registration
\* keeps every entry of the store, and adds at most the entry of the named
\* string of the condition being evaluated.
ConditionStoresOnlyItsString ==
    \A t \in Tasks :
        Registers(t) =>
            /\ \A n \in DOMAIN store : n \in DOMAIN store' /\ store'[n] = store[n]
            /\ (DOMAIN store' \ DOMAIN store) \subseteq ConditionName(stack[t][1])

\* When the call returns, the store holds, for every condition whose named
\* string was found, the component the evaluation got.
ConditionStringCached ==
    \A h \in RegisterCalls :
        \A i \in 1..Len(h.out) :
            h.out[i].found =>
                /\ Name(h.reg.conds[i].name, StringType) \in DOMAIN h.store
                /\ h.store[Name(h.reg.conds[i].name, StringType)] = h.out[i].val

StartedStored(t) ==
    /\ stack[t] # <<>>
    /\ stack[t][1].kind = "resolve" /\ stack[t][1].req.q = "name"
    /\ ~stack[t][1].early

NoOperationInProgress ==
    /\ \A t \in Tasks : stack[t] = <<>>
    /\ \A id \in DOMAIN regs : regs[id].pc = "done"

\* C34: when no call of the resolver is in progress, the lock manager has no
\* entry for a Name whose component is in the store.
C34_NoLockEntryForStoredName ==
    NoOperationInProgress => DOMAIN locks \cap DOMAIN store = {}

\* The decorators whose registration has added them, and those whose
\* registration has returned.
AddedDecorators ==
    {dec \in Decorators : dec.id \in DOMAIN regs /\ regs[dec.id].pc \in {"unlock", "done"}}

InCriticalSection(dec) == dec.id \in DOMAIN regs /\ regs[dec.id].pc \in {"load", "add", "unlock"}

\* C35: however the registrations of the decorators of a Name interleave with
\* each other and with a construction of the Name, every decorator that has
\* been added is in the list of the Name, once, and the list is in ascending
\* order of priority.
C35_NoDecoratorLost ==
    /\ \A dec \in AddedDecorators :
          /\ ForName(dec) \in DOMAIN decorators
          /\ Cardinality({i \in 1..Len(decorators[ForName(dec)]) :
                             decorators[ForName(dec)][i] = dec}) = 1
    /\ \A n \in DOMAIN decorators : Ascending(decorators[n])

\* Two registrations for one Name are between Lock and Unlock at the same
\* time, each on its own mutex: the first has added its decorator to the
\* list, which it created, and the second has loaded the list and is about
\* to add.
C35_Witness ==
    \E d1, d2 \in Decorators :
        /\ d1 # d2 /\ ForName(d1) = ForName(d2)
        /\ InCriticalSection(d1) /\ InCriticalSection(d2)
        /\ regs[d1.id].mutex # regs[d2.id].mutex
        /\ regs[d1.id].pc = "unlock" /\ regs[d2.id].pc = "add"
        /\ Len(decorators[ForName(d1)]) = 1

\* The tracker's visited set is the set of the elements of its stack, and
\* no Name is on the stack twice.
VisitedIsStack(tracker) ==
    /\ tracker.visited = Elems(StackOf(arrays, tracker))
    /\ Cardinality(tracker.visited) = tracker.len

\* Every tracker's visited set is the set of the elements of its stack.
AllVisitedAreStacks == \A i \in DOMAIN trackers : VisitedIsStack(trackers[i])

\* A Push or a Pop on a tracker made by NewTrackerFrom leaves the visited
\* set and the stack of the tracker it was made from as they were.
BranchLeavesOriginal ==
    \A i \in DOMAIN trackers :
        (/\ Len(trackers') = Len(trackers)
         /\ trackers'[i] # trackers[i]
         /\ trackers[i].from # 0)
        => /\ trackers'[trackers[i].from].visited = trackers[trackers[i].from].visited
           /\ StackOf(arrays', trackers'[trackers[i].from])
                  = StackOf(arrays, trackers[trackers[i].from])

\* C36: after any sequence of Push, Pop and NewTrackerFrom, the visited set
\* of every tracker is the set of the elements of its stack and no Name is
\* on the stack twice; a Push or a Pop on a tracker made by NewTrackerFrom
\* changes neither the visited set nor the stack of the tracker it was made
\* from.
C36_TrackersIndependent == []AllVisitedAreStacks /\ [][BranchLeavesOriginal]_vars

\* The calls of provideUsing about to return a component.
ProvidedWithoutError ==
    {t \in Tasks : At(t, "provide", "release") /\ Top(t).ret.err = "none"}

\* C37: a provideUsing call that returns without error leaves the tracker
\* it was given as it was on entry.  Between entry and return only the Push
\* of the call's Name and the Pop change that tracker, so it is as on entry
\* exactly when the Name is no longer in it.
C37_TrackerRestored ==
    \A t \in ProvidedWithoutError :
        /\ Top(t).name \notin Below(t).trk.visited
        /\ Top(t).name \notin Elems(Below(t).trk.stack)

====
